---- MODULE Spec2Model ----
(***************************************************************************)
(* Model of contracts/RefugeeAssistanceFHE.sol: the encrypted-record       *)
(* ledger and the two-phase decryption-oracle protocol                     *)
(* (verifyEligibility -> performVerification, requestVerificationResult    *)
(* -> decryptVerification).  Every transaction is one atomic action; a     *)
(* transaction that reverts leaves the contract storage as it was and is   *)
(* visible only in lastCall.  FHE.requestDecryption and FHE.checkSignatures *)
(* are the external capability: the first returns a fresh request id for    *)
(* whatever handles it is given, the second accepts or rejects a proof      *)
(* (the input proofOk).                                                     *)
(***************************************************************************)
EXTENDS Integers, Sequences, FiniteSets, TLC

\* ---------------------------------------------------------------- bounds
MaxRefugees == 2
MaxPackages == 1
MaxVerifications == 2
MaxRequests == 3
MaxClients == 2
FirstClock == 999
MaxClock == 1000
MaxTasks == 2
MaxTimers == 1
MaxKeys == 2
MaxCalls == 3
MaxStatusCalls == 5
MaxWalletCalls == 1
MaxIdentityLen == 11
MaxNeedsLen == 6
MaxStringLen == 3

RefugeeIds == 0..MaxRefugees
PackageIds == 0..MaxPackages
VerificationIds == 0..MaxVerifications
RequestIds == 0..MaxRequests

\* ------------------------------------------------------- values and inputs
\* euint32 handles: the zero handle of an unwritten storage slot, a handle
\* supplied by a caller, and the trivial encryption FHE.asEuint32(v).
ZeroHandle == [kind |-> "zero", v |-> 0]
InputHandle(n) == [kind |-> "input", v |-> n]
SampleHandles == {<<InputHandle(1), InputHandle(2), InputHandle(3)>>}

\* a string of n bytes, all equal to c
Str(c, n) == [i \in 1..n |-> c]

\* block.timestamp of the block a transaction is mined in
SampleTimestamps == {1700000000}

\* cleartexts delivered to performVerification: (identity, needs, resources)
SampleCleartexts ==
    { <<Str(1, 11), Str(2, 6), Str(2, 6)>>,
      <<Str(1, 5), <<1, 2, 3, 4, 5>>, <<1, 2, 9, 4, 5>>>> }

\* the strings of at most n bytes over a two-byte alphabet
Strings(n) == UNION {[1..k -> {1, 2}] : k \in 0..n}

\* cleartexts for the scores: identity and needs of every length up to the
\* bounds, needs and resources with every content up to MaxStringLen bytes,
\* and the samples above
ScoreInputs ==
    {<<Str(1, i), Str(2, n), <<>>>> :
        i \in 0..MaxIdentityLen, n \in 0..MaxNeedsLen}
    \cup {<<Str(1, MaxIdentityLen), needs, resources>> :
        needs \in Strings(MaxStringLen), resources \in Strings(MaxStringLen)}
    \cup SampleCleartexts

\* cleartexts delivered to decryptVerification: (eligibility, priority)
SampleScores == { <<100, 100>>, <<7, 9>> }

\* msg.sender: an address the access policy admits and one it denies
Callers == {"agency", "stranger"}

\* the decision of the access policy for a caller
isAuthorized(sender) == sender = "agency"

asEuint32(value) == [kind |-> "trivial", v |-> value]

toBytes32(handle) == handle

\* the cleartext the decryption oracle returns for a handle
decrypt(handle) == handle.v

\* ------------------------------------------------------------------ state
VARIABLES
    refugeeCount, packageCount, verificationCount,
    encryptedRefugees, encryptedPackages, encryptedVerifications,
    decryptedResults,
    requestToRefugeeId, verificationRequestToId,
    issued,         \* the decryption requests submitted so far, in order
    createdBy,      \* history: the requestId whose callback created each Verification
    resultDecrypted,\* history: number of ResultDecrypted events per verification id
    lastCall,       \* the last transaction, its arguments and its outcome
    twinResults,    \* decryptedResults of a second run given the same calls
    caller,         \* msg.sender of the last transaction behind onlyAgency
    decoded,        \* the cleartexts the last performVerification was given
    \* web/src/App.tsx and the key-value contract it talks to
    clock,          \* Date.now()
    aidKeys,        \* the bytes stored under the key "aid_keys"
    aidData,        \* the bytes stored under the keys "aid_<recordId>"
    pc,             \* per slot: the await the call holding it stands at
    local,          \* per slot: the session, the handler and its local variables
    records,        \* per browser session: the React state `records`
    transactionStatus,  \* per browser session: the React state of that name
    timers,         \* per browser session: the setTimeout callbacks still to run
    isRefreshing,   \* per browser session: the React state of that name
    creating,       \* per browser session: the React state of that name
    provider,       \* per browser session: the React state of that name
    account,        \* per browser session: the React state of that name
    listening,      \* per browser session: an accountsChanged listener is set
    connecting,     \* per browser session: eth_requestAccounts calls awaited
    calls           \* history: the handler calls the buttons started so far

store == <<refugeeCount, packageCount, verificationCount,
           encryptedRefugees, encryptedPackages, encryptedVerifications,
           decryptedResults, requestToRefugeeId, verificationRequestToId>>

vars == <<refugeeCount, packageCount, verificationCount,
          encryptedRefugees, encryptedPackages, encryptedVerifications,
          decryptedResults, requestToRefugeeId, verificationRequestToId,
          issued, createdBy, resultDecrypted, lastCall, twinResults,
          caller, decoded,
          clock, aidKeys, aidData, pc, local, records, transactionStatus,
          timers, isRefreshing, creating, provider, account, listening,
          connecting, calls>>

\* the contract with everything recorded about its transactions
contractVars == <<store, issued, createdBy, resultDecrypted, lastCall,
                  twinResults, caller, decoded>>

\* the wallet connection of the sessions
walletVars == <<provider, account, listening, connecting>>

\* the frontend and its key-value contract
pageVars == <<clock, aidKeys, aidData, pc, local, records, transactionStatus,
             timers, isRefreshing, creating, walletVars>>

appVars == <<pageVars, calls>>

\* the value of a storage slot that was never written
NoRefugee ==
    [refugeeId |-> 0, encryptedIdentity |-> ZeroHandle,
     encryptedLocation |-> ZeroHandle, encryptedNeeds |-> ZeroHandle,
     timestamp |-> 0]

NoPackage ==
    [packageId |-> 0, encryptedResources |-> ZeroHandle,
     encryptedQuantities |-> ZeroHandle, timestamp |-> 0]

NoVerification ==
    [verificationId |-> 0, encryptedEligibility |-> ZeroHandle,
     encryptedPriority |-> ZeroHandle, refugeeId |-> 0, packageId |-> 0,
     verifiedAt |-> 0]

NoResult == [eligibility |-> 0, priority |-> 0, isRevealed |-> FALSE]

\* a transaction: the function called, its first argument (an id), two further
\* values (the second argument, or the two scores a callback decoded), and
\* "ok" or the revert reason
Call(fn, id, e, p, result) ==
    [fn |-> fn, id |-> id, e |-> e, p |-> p, result |-> result]

\* ------------------------------------------------- frontend: values, state
\* web/src/App.tsx keeps its records in a key-value contract reached through
\* contract.getData(key) and contract.setData(key, bytes): a durable store
\* whose operations are atomic per key.  An awaited call either returns or
\* throws; a setData that throws stores nothing.  Every await of a handler
\* is a point where other handlers, of the same browser session or another,
\* and the timers run.
Clients == 1..MaxClients

\* the handler invocations that are running: each holds a slot
Tasks == 1..MaxTasks

\* Math.random().toString(36).substring(2, 9): one sample, so that two ids
\* built in the same millisecond are the (improbable) case of equal ids
SampleRandoms == {"k3j9x1a"}

\* a string the code looks into is the sequence of its UTF-16 code units
\* ("water", one space, a tab and a space, the empty string)
SampleNeeds ==
    << <<119, 97, 116, 101, 114>>, <<32>>, <<9, 32>>, <<>> >>

\* the amount of the form is a JavaScript value: the number the state starts
\* with, or the string handleChange stores when the field is edited
numberValue(n) == [number |-> n]

stringValue(text) == [string |-> text]

\* !value
Falsy(value) ==
    IF "number" \in DOMAIN value THEN value.number = 0 ELSE value.string = <<>>

\* "rice", "camp"
Rice == <<114, 105, 99, 101>>

Camp == <<99, 97, 109, 112>>

\* the form state newRecordData: a form that is filled in, one whose amount
\* was typed as "0", one whose amount was left at the number 0, one whose
\* amount was erased, and one with a need of one line separator (U+2028)
FilledForm ==
    [category |-> "food", description |-> Rice, amount |-> stringValue(<<51>>),
     location |-> Camp, needs |-> SampleNeeds]

ZeroTyped == [FilledForm EXCEPT !.amount = stringValue(<<48>>)]

AmountLeft ==
    [category |-> "food", description |-> <<>>, amount |-> numberValue(0),
     location |-> Camp, needs |-> << <<>> >>]

AmountErased == [FilledForm EXCEPT !.amount = stringValue(<<>>)]

LineSeparator == [FilledForm EXCEPT !.needs = << <<8232>> >>]

SampleForms == {FilledForm, ZeroTyped, AmountLeft, AmountErased, LineSeparator}

\* the forms a session submits: the form is state of the session, and what
\* one user types differs from what the other types
FormsOf(c) ==
    IF c = 1
    THEN SampleForms \ {ZeroTyped, AmountErased}
    ELSE {ZeroTyped, AmountErased}

\* the addresses a wallet reports: none, one, another one
SampleAccounts == { <<>>, <<"0xA1">>, <<"0xB2">> }

\* accounts[0] || ""
FirstAccount(accounts) == IF accounts = <<>> THEN "" ELSE accounts[1]

\* JSON.stringify writes a surrogate that has no partner as an escape of six
\* ASCII characters, and every other code unit above U+001F as it is
HighSurrogate(unit) == unit \in 55296..56319

LowSurrogate(unit) == unit \in 56320..57343

LoneSurrogate(text, i) ==
    \/ /\ HighSurrogate(text[i])
       /\ ~(i < Len(text) /\ LowSurrogate(text[i + 1]))
    \/ /\ LowSurrogate(text[i])
       /\ ~(i > 1 /\ HighSurrogate(text[i - 1]))

\* btoa accepts the JSON text of a string: no code unit above U+00FF is left
Latin1(text) ==
    \A i \in 1..Len(text) : text[i] <= 255 \/ LoneSurrogate(text, i)

\* btoa(JSON.stringify(newRecordData)) returns; the category is one of the
\* options of the select element, all ASCII
btoaAccepts(form) ==
    /\ Latin1(form.description)
    /\ Latin1(form.location)
    /\ "string" \in DOMAIN form.amount => Latin1(form.amount.string)
    /\ \A i \in 1..Len(form.needs) : Latin1(form.needs[i])

\* what an awaited call comes back with: it returns, or it throws an Error
\* whose message is the given fragments of text, one after the other
Ok == [thrown |-> FALSE, message |-> <<>>]

Error(message) == [thrown |-> TRUE, message |-> message]

SampleOutcomes ==
    { Ok,
      Error(<<"transaction failed">>),
      Error(<<"MetaMask: ", "user rejected transaction">>),
      Error(<<>>) }

\* the text of a message
RECURSIVE Join(_)
Join(message) ==
    IF message = <<>> THEN "" ELSE Head(message) \o Join(Tail(message))

\* e.message.includes(text), for a text that is one of the fragments
includes(message, text) == \E i \in 1..Len(message) : message[i] = text

\* e.message || "Unknown error"
OrUnknownError(message) ==
    IF Join(message) = "" THEN "Unknown error" ELSE Join(message)

\* the runtimes a page is opened in, and the message of the exception btoa
\* throws in each of them.  A page stays in its runtime, and the message
\* it shows is the only trace the runtime leaves in the state
Runtimes == {"chromium", "gecko", "webkit", "node"}

btoaError(runtime) ==
    CASE runtime = "chromium" ->
           <<"Failed to execute 'btoa' on 'Window': ",
             "The string to be encoded contains characters outside of the Latin1 range.">>
      [] runtime = "gecko" -> <<"String contains an invalid character">>
      [] runtime = "webkit" -> <<"The string contains invalid characters.">>
      [] runtime = "node" -> <<"Invalid character">>

\* the readings of Date.now(), in milliseconds, the model follows: the
\* last millisecond of a second and the first of the next
Clock == FirstClock..MaxClock

\* getData of a key that was never set: bytes of length 0
EmptyBytes == <<>>

\* ethers.toUtf8Bytes(JSON.stringify(document))
toUtf8Bytes(document) == <<document>>

\* JSON.parse(ethers.toUtf8String(bytes)), for bytes.length > 0
parseJSON(bytes) == bytes[1]

\* contract.getData("aid_keys")
getKeysData == aidKeys

\* contract.getData(`aid_${recordId}`)
getRecordData(recordId) ==
    IF recordId \in DOMAIN aidData THEN aidData[recordId] ELSE EmptyBytes

\* contract.setData(`aid_${recordId}`, bytes)
setRecordData(recordId, bytes) ==
    [k \in DOMAIN aidData \cup {recordId} |->
        IF k = recordId THEN bytes ELSE aidData[k]]

\* `${Date.now()}-${Math.random().toString(36).substring(2, 9)}`
newRecordId(now, random) == <<now, random>>

\* the code points String.prototype.trim removes: WhiteSpace and
\* LineTerminator of ECMAScript
WhiteSpace ==
    {9, 10, 11, 12, 13, 32, 160, 5760, 8232, 8233, 8239, 8287, 12288, 65279}
    \cup 8192..8202

RECURSIVE trimStart(_)
trimStart(string) ==
    IF string # <<>> /\ Head(string) \in WhiteSpace
    THEN trimStart(Tail(string))
    ELSE string

RECURSIVE trimEnd(_)
trimEnd(string) ==
    IF string # <<>> /\ string[Len(string)] \in WhiteSpace
    THEN trimEnd(SubSeq(string, 1, Len(string) - 1))
    ELSE string

\* need.trim()
trim(need) == trimEnd(trimStart(need))

\* need.trim() !== ""
NotBlank(need) == trim(need) # <<>>

newRecord_Rejected(now, owner, form) ==
    [data |-> <<"FHE-", form>>,
     timestamp |-> now \div 1000,
     owner |-> owner,
     category |-> form.category,
     status |-> "rejected",
     amount |-> form.amount,
     location |-> form.location,
     needs |-> SelectSeq(form.needs, NotBlank)]

\* the recordData object submitRecord builds
newRecord(now, owner, form) ==
    [data |-> <<"FHE-", form>>,
     timestamp |-> now \div 1000,
     owner |-> owner,
     category |-> form.category,
     status |-> "pending",
     amount |-> form.amount,
     location |-> form.location,
     needs |-> SelectSeq(form.needs, NotBlank)]

\* keys.push(recordId)
pushKey(keys, recordId) == Append(keys, recordId)

\* the keys array a handler reads: [] when nothing is stored under aid_keys
readKeys(keysBytes) ==
    IF Len(keysBytes) > 0 THEN parseJSON(keysBytes) ELSE <<>>

\* a slot no handler holds
NoLocal ==
    [session |-> 0, fn |-> "", account |-> "", form |-> <<>>,
     recordId |-> <<0, "">>, recordData |-> <<>>, keys |-> <<>>, list |-> <<>>]

NoStatus == [visible |-> FALSE, status |-> "pending", message |-> ""]

Status(status, message) ==
    [visible |-> TRUE, status |-> status, message |-> message]

\* no wallet was selected yet
InitWallet ==
    /\ provider = [c \in Clients |-> FALSE]
    /\ account = [c \in Clients |-> ""]
    /\ listening = [c \in Clients |-> FALSE]
    /\ connecting = [c \in Clients |-> 0]

\* the wallets after onWalletSelect ran in every session: session 1 holds an
\* account; session 2 holds `second`: the account of the same wallet, that
\* of another wallet, or "" because its request was rejected
Connected(second) ==
    /\ provider = [c \in Clients |-> TRUE]
    /\ account = [c \in Clients |-> IF c = 1 THEN "0xA1" ELSE second]
    /\ listening = [c \in Clients |-> c = 1 \/ second # ""]
    /\ connecting = [c \in Clients |-> 0]

\* the page of every session after mounting: the effect has called
\* loadRecords, which stands at its first await
InitPage ==
    /\ clock = FirstClock
    /\ aidKeys = EmptyBytes
    /\ aidData = <<>>
    /\ pc = [k \in Tasks |->
                IF k \in Clients THEN "load_getContract" ELSE "idle"]
    /\ local = [k \in Tasks |->
                   IF k \in Clients
                   THEN [NoLocal EXCEPT !.session = k, !.fn = "loadRecords"]
                   ELSE NoLocal]
    /\ records = [c \in Clients |-> <<>>]
    /\ transactionStatus = [c \in Clients |-> NoStatus]
    /\ timers = [c \in Clients |-> 0]
    /\ isRefreshing = [c \in Clients |-> TRUE]
    /\ creating = [c \in Clients |-> FALSE]
    /\ calls = 0

InitApp ==
    /\ InitPage
    /\ InitWallet

\* the contract after construction and the frontend after mounting
InitContract ==
    /\ refugeeCount = 0
    /\ packageCount = 0
    /\ verificationCount = 0
    /\ encryptedRefugees = [i \in RefugeeIds |-> NoRefugee]
    /\ encryptedPackages = [i \in PackageIds |-> NoPackage]
    /\ encryptedVerifications = [i \in VerificationIds |-> NoVerification]
    /\ decryptedResults = [i \in VerificationIds |-> NoResult]
    /\ requestToRefugeeId = [r \in RequestIds |-> 0]
    /\ verificationRequestToId = [r \in RequestIds |-> 0]
    /\ issued = <<>>
    /\ createdBy = <<>>
    /\ resultDecrypted = [i \in VerificationIds |-> 0]
    /\ lastCall = Call("constructor", 0, 0, 0, "ok")
    /\ twinResults = [i \in VerificationIds |-> NoResult]
    /\ caller = "deployer"

InitStore ==
    /\ InitContract
    /\ InitApp

Init ==
    /\ InitStore
    /\ decoded = <<<<>>, <<>>, <<>>>>

\* the contract after construction and the sessions after mounting and
\* selecting their wallets: session 2 with a wallet of its own
InitOtherWallet ==
    /\ InitContract
    /\ InitPage
    /\ Connected("0xB2")
    /\ decoded = <<<<>>, <<>>, <<>>>>

\* the same, both sessions being pages of one wallet
InitSameWallet ==
    /\ InitContract
    /\ InitPage
    /\ Connected("0xA1")
    /\ decoded = <<<<>>, <<>>, <<>>>>

\* the same, the request of session 2 for its accounts having been rejected
InitRejected ==
    /\ InitContract
    /\ InitPage
    /\ Connected("")
    /\ decoded = <<<<>>, <<>>, <<>>>>

\* --------------------------------------------------------- pure functions
calculateEligibility_AtLeast(identity, needs) ==
    LET s1 == IF Len(identity) >= 10 THEN 50 ELSE 0
        score == IF Len(needs) >= 5 THEN s1 + 50 ELSE s1
    IN  IF score > 100 THEN 100 ELSE score

calculateEligibility(identity, needs) ==
    LET s1 == IF Len(identity) > 10 THEN 50 ELSE 0
        score == IF Len(needs) > 5 THEN s1 + 50 ELSE s1
    IN  IF score > 100 THEN 100 ELSE score

RECURSIVE CountMatches(_, _, _)
CountMatches(needs, resources, i) ==
    IF i > Len(needs) \/ i > Len(resources) THEN 0
    ELSE (IF needs[i] = resources[i] THEN 1 ELSE 0)
         + CountMatches(needs, resources, i + 1)

calculatePriority_Undivided(needs, resources) ==
    CountMatches(needs, resources, 1) * 100

calculatePriority_ByResources(needs, resources) ==
    LET matches == CountMatches(needs, resources, 1)
        divisor == IF Len(resources) > 0 THEN Len(resources) ELSE 1
    IN  (matches * 100) \div divisor

calculatePriority(needs, resources) ==
    LET matches == CountMatches(needs, resources, 1)
        \* uint32(needsBytes.length): the lengths modelled are far below 2^32
        divisor == IF Len(needs) > 0 THEN Len(needs) ELSE 1
    IN  (matches * 100) \div divisor

\* ----------------------------------------------------- decryption oracle
\* FHE.requestDecryption returns an id no earlier submission was given.
requestDecryption == Len(issued)

\* a submission keeps the handles it was given: they are what the oracle
\* decrypts, whatever the contract stores later
Submit(selector, ciphertexts, target) ==
    Append(issued, [selector |-> selector, ciphertexts |-> ciphertexts,
                    target |-> target])

\* requestId was returned to a submission whose callback is `selector`
IssuedFor(selector, requestId) ==
    /\ requestId < Len(issued)
    /\ issued[requestId + 1].selector = selector

\* the record or verification id given when requestId was submitted
TargetOf(requestId) == issued[requestId + 1].target

\* the handles FHE.requestDecryption was given for requestId
CiphertextsOf(requestId) == issued[requestId + 1].ciphertexts

\* ------------------------------------------------------------ transactions
\* A reverted transaction: storage and histories as before.
Revert(fn, id, e, p, reason) ==
    /\ lastCall' = Call(fn, id, e, p, reason)
    /\ UNCHANGED <<store, issued, createdBy, resultDecrypted>>

\* modifier onlyAgency() { _; }: the body runs whoever msg.sender is
onlyAgency(sender) == TRUE

registerEncryptedRefugee_Overwrite(sender, encryptedIdentity, encryptedLocation, encryptedNeeds, t) ==
    /\ refugeeCount < MaxRefugees
    /\ refugeeCount' = refugeeCount + 1
    /\ encryptedRefugees' =
          [i \in RefugeeIds |->
              IF i <= refugeeCount + 1
              THEN [refugeeId |-> i,
                    encryptedIdentity |-> encryptedIdentity,
                    encryptedLocation |-> encryptedLocation,
                    encryptedNeeds |-> encryptedNeeds,
                    timestamp |-> t]
              ELSE encryptedRefugees[i]]
    /\ lastCall' = Call("registerEncryptedRefugee", refugeeCount + 1, 0, 0, "ok")
    /\ UNCHANGED <<packageCount, verificationCount, encryptedPackages,
                   encryptedVerifications, decryptedResults, requestToRefugeeId,
                   verificationRequestToId, issued, createdBy, resultDecrypted>>

registerEncryptedRefugee(sender, encryptedIdentity, encryptedLocation, encryptedNeeds, t) ==
    /\ onlyAgency(sender)
    /\ refugeeCount < MaxRefugees
    /\ LET newRefugeeId == refugeeCount + 1 IN
        /\ refugeeCount' = newRefugeeId
        /\ encryptedRefugees' =
              [encryptedRefugees EXCEPT ![newRefugeeId] =
                  [refugeeId |-> newRefugeeId,
                   encryptedIdentity |-> encryptedIdentity,
                   encryptedLocation |-> encryptedLocation,
                   encryptedNeeds |-> encryptedNeeds,
                   timestamp |-> t]]
        /\ lastCall' = Call("registerEncryptedRefugee", newRefugeeId, 0, 0, "ok")
    /\ UNCHANGED <<packageCount, verificationCount, encryptedPackages,
                   encryptedVerifications, decryptedResults, requestToRefugeeId,
                   verificationRequestToId, issued, createdBy, resultDecrypted>>

createAidPackage_AtCount(sender, encryptedResources, encryptedQuantities, t) ==
    /\ packageCount < MaxPackages
    /\ packageCount' = packageCount + 1
    /\ encryptedPackages' =
          [encryptedPackages EXCEPT ![packageCount] =
              [packageId |-> packageCount,
               encryptedResources |-> encryptedResources,
               encryptedQuantities |-> encryptedQuantities,
               timestamp |-> t]]
    /\ lastCall' = Call("createAidPackage", packageCount, 0, 0, "ok")
    /\ UNCHANGED <<refugeeCount, verificationCount, encryptedRefugees,
                   encryptedVerifications, decryptedResults, requestToRefugeeId,
                   verificationRequestToId, issued, createdBy, resultDecrypted>>

createAidPackage(sender, encryptedResources, encryptedQuantities, t) ==
    /\ onlyAgency(sender)
    /\ packageCount < MaxPackages
    /\ LET newPackageId == packageCount + 1 IN
        /\ packageCount' = newPackageId
        /\ encryptedPackages' =
              [encryptedPackages EXCEPT ![newPackageId] =
                  [packageId |-> newPackageId,
                   encryptedResources |-> encryptedResources,
                   encryptedQuantities |-> encryptedQuantities,
                   timestamp |-> t]]
        /\ lastCall' = Call("createAidPackage", newPackageId, 0, 0, "ok")
    /\ UNCHANGED <<refugeeCount, verificationCount, encryptedRefugees,
                   encryptedVerifications, decryptedResults, requestToRefugeeId,
                   verificationRequestToId, issued, createdBy, resultDecrypted>>

RecordRefugeeRequest_Everywhere(reqId, refugeeId, packageId) ==
    [r \in RequestIds |-> refugeeId]

RecordRefugeeRequest_Package(reqId, refugeeId, packageId) ==
    [requestToRefugeeId EXCEPT ![reqId] = packageId]

\* requestToRefugeeId[reqId] = refugeeId
RecordRefugeeRequest(reqId, refugeeId, packageId) ==
    [requestToRefugeeId EXCEPT ![reqId] = refugeeId]

\* verifyEligibility when FHE.requestDecryption returns reqId
verifyEligibilityGiven(reqId, sender, refugeeId, packageId, t) ==
    /\ onlyAgency(sender)
    /\ Len(issued) < MaxRequests
    /\ LET refugee == encryptedRefugees[refugeeId]
           aidPackage == encryptedPackages[packageId]
           ciphertexts == <<toBytes32(refugee.encryptedIdentity),
                            toBytes32(refugee.encryptedNeeds),
                            toBytes32(aidPackage.encryptedResources)>>
       IN  /\ issued' = Submit("performVerification", ciphertexts, refugeeId)
           /\ requestToRefugeeId' = RecordRefugeeRequest(reqId, refugeeId, packageId)
           /\ lastCall' = Call("verifyEligibility", refugeeId, packageId, 0, "ok")
    /\ UNCHANGED <<refugeeCount, packageCount, verificationCount,
                   encryptedRefugees, encryptedPackages, encryptedVerifications,
                   decryptedResults, verificationRequestToId, createdBy,
                   resultDecrypted>>

verifyEligibility(sender, refugeeId, packageId, t) ==
    verifyEligibilityGiven(requestDecryption, sender, refugeeId, packageId, t)

checkSignatures_Skip(requestId, cleartexts, proofOk) == TRUE

\* FHE.checkSignatures(requestId, cleartexts, proof): reverts unless the proof
\* carries valid signatures for the request and the cleartexts
checkSignatures(requestId, cleartexts, proofOk) == proofOk

UnknownRefugeeRequest_Never(requestId) == FALSE

\* require(refugeeId != 0, "Invalid request")
UnknownRefugeeRequest(requestId) == requestToRefugeeId[requestId] = 0

NewVerification_LatestPackage(newVerificationId, refugeeId, eligibility, priority, t) ==
    [verificationId |-> newVerificationId,
     encryptedEligibility |-> asEuint32(eligibility),
     encryptedPriority |-> asEuint32(priority),
     refugeeId |-> refugeeId,
     packageId |-> packageCount,
     verifiedAt |-> t]

NewVerification(newVerificationId, refugeeId, eligibility, priority, t) ==
    [verificationId |-> newVerificationId,
     encryptedEligibility |-> asEuint32(eligibility),
     encryptedPriority |-> asEuint32(priority),
     refugeeId |-> refugeeId,
     packageId |-> 0,
     verifiedAt |-> t]

NewResult_Swapped(eligibility, priority) ==
    [eligibility |-> priority, priority |-> eligibility, isRevealed |-> FALSE]

NewResult(eligibility, priority) ==
    [eligibility |-> eligibility, priority |-> priority, isRevealed |-> FALSE]

performVerification(requestId, cleartexts, proofOk, t) ==
    /\ LET refugeeId == requestToRefugeeId[requestId]
           identity == cleartexts[1]
           needs == cleartexts[2]
           resources == cleartexts[3]
           eligibility == calculateEligibility(identity, needs)
           priority == calculatePriority(needs, resources)
           newVerificationId == verificationCount + 1
       IN  IF UnknownRefugeeRequest(requestId)
           THEN Revert("performVerification", requestId, 0, 0, "Invalid request")
           ELSE IF ~checkSignatures(requestId, cleartexts, proofOk)
           THEN Revert("performVerification", requestId, 0, 0, "InvalidKMSSignatures")
           ELSE /\ verificationCount < MaxVerifications
                /\ verificationCount' = newVerificationId
                /\ encryptedVerifications' =
                      [encryptedVerifications EXCEPT ![newVerificationId] =
                          NewVerification(newVerificationId, refugeeId,
                                          eligibility, priority, t)]
                /\ decryptedResults' =
                      [decryptedResults EXCEPT ![newVerificationId] =
                          NewResult(eligibility, priority)]
                /\ createdBy' = Append(createdBy, requestId)
                /\ lastCall' = Call("performVerification", requestId, 0, 0, "ok")
                /\ UNCHANGED <<refugeeCount, packageCount, encryptedRefugees,
                               encryptedPackages, requestToRefugeeId,
                               verificationRequestToId, issued, resultDecrypted>>

AlreadyDecrypted_Never(verificationId) == FALSE

\* require(!decryptedResults[verificationId].isRevealed, "Already decrypted")
AlreadyDecrypted(verificationId) == decryptedResults[verificationId].isRevealed

\* verificationRequestToId[reqId] = verificationId
RecordVerificationRequest(reqId, verificationId) ==
    [verificationRequestToId EXCEPT ![reqId] = verificationId]

\* requestVerificationResult when FHE.requestDecryption returns reqId
requestVerificationResultGiven(reqId, sender, verificationId, t) ==
    /\ onlyAgency(sender)
    /\ LET verification == encryptedVerifications[verificationId]
           ciphertexts == <<toBytes32(verification.encryptedEligibility),
                            toBytes32(verification.encryptedPriority)>>
       IN  IF AlreadyDecrypted(verificationId)
           THEN Revert("requestVerificationResult", verificationId, 0, 0,
                       "Already decrypted")
           ELSE /\ Len(issued) < MaxRequests
                /\ issued' = Submit("decryptVerification", ciphertexts,
                                    verificationId)
                /\ verificationRequestToId' =
                      RecordVerificationRequest(reqId, verificationId)
                /\ lastCall' = Call("requestVerificationResult", verificationId,
                                    0, 0, "ok")
                /\ UNCHANGED <<refugeeCount, packageCount, verificationCount,
                               encryptedRefugees, encryptedPackages,
                               encryptedVerifications, decryptedResults,
                               requestToRefugeeId, createdBy, resultDecrypted>>

requestVerificationResult(sender, verificationId, t) ==
    requestVerificationResultGiven(requestDecryption, sender, verificationId, t)

UnknownVerificationRequest_SharedTable(requestId) ==
    /\ verificationRequestToId[requestId] = 0
    /\ requestToRefugeeId[requestId] = 0

\* require(verificationId != 0, "Invalid request")
UnknownVerificationRequest(requestId) == verificationRequestToId[requestId] = 0

ResultAlreadyDecrypted_Never(verificationId) == FALSE

\* require(!dResult.isRevealed, "Already decrypted")
ResultAlreadyDecrypted(verificationId) == decryptedResults[verificationId].isRevealed

decryptVerification(requestId, cleartexts, proofOk, t) ==
    /\ LET verificationId == verificationRequestToId[requestId]
           eligibility == cleartexts[1]
           priority == cleartexts[2]
       IN  IF UnknownVerificationRequest(requestId)
           THEN Revert("decryptVerification", requestId, eligibility, priority,
                       "Invalid request")
           ELSE IF ResultAlreadyDecrypted(verificationId)
           THEN Revert("decryptVerification", requestId, eligibility, priority,
                       "Already decrypted")
           ELSE IF ~checkSignatures(requestId, cleartexts, proofOk)
           THEN Revert("decryptVerification", requestId, eligibility, priority,
                       "InvalidKMSSignatures")
           ELSE /\ decryptedResults' =
                      [decryptedResults EXCEPT ![verificationId] =
                          [eligibility |-> eligibility, priority |-> priority,
                           isRevealed |-> TRUE]]
                /\ resultDecrypted' =
                      [resultDecrypted EXCEPT ![verificationId] = @ + 1]
                /\ lastCall' = Call("decryptVerification", requestId,
                                    eligibility, priority, "ok")
                /\ UNCHANGED <<refugeeCount, packageCount, verificationCount,
                               encryptedRefugees, encryptedPackages,
                               encryptedVerifications, requestToRefugeeId,
                               verificationRequestToId, issued, createdBy>>

\* ------------------------------------------------------------------ views
ResultView(results, verificationId) ==
    LET r == results[verificationId]
    IN  <<r.eligibility, r.priority, r.isRevealed>>

getDecryptedResult(verificationId) == ResultView(decryptedResults, verificationId)

\* ---------------------------------------------------------- specification
\* Spec: any sequence of transactions.  The second run receives the same
\* calls with the same arguments, so its results are those of the first.
\* The specifications below are the parts of it the properties are checked
\* in: the protocol alone (SpecOracle), and the protocol with registration
\* by the agency, one cleartext and one score sample (SpecCascade).
RegisterRefugee ==
    \E sender \in Callers, h \in SampleHandles, t \in SampleTimestamps :
        /\ registerEncryptedRefugee(sender, h[1], h[2], h[3], t)
        /\ twinResults' = decryptedResults'
        /\ UNCHANGED <<caller, decoded, appVars>>

CreatePackage ==
    \E sender \in Callers, h \in SampleHandles, t \in SampleTimestamps :
        /\ createAidPackage(sender, h[1], h[2], t)
        /\ twinResults' = decryptedResults'
        /\ UNCHANGED <<caller, decoded, appVars>>

VerifyEligibility ==
    \E sender \in Callers, refugeeId \in RefugeeIds, packageId \in PackageIds,
       t \in SampleTimestamps :
        /\ verifyEligibility(sender, refugeeId, packageId, t)
        /\ twinResults' = decryptedResults'
        /\ UNCHANGED <<caller, decoded, appVars>>

PerformVerification ==
    \E requestId \in RequestIds, cleartexts \in SampleCleartexts,
       proofOk \in BOOLEAN, t \in SampleTimestamps :
        /\ performVerification(requestId, cleartexts, proofOk, t)
        /\ twinResults' = decryptedResults'
        /\ UNCHANGED <<caller, decoded, appVars>>

RequestVerificationResult ==
    \E sender \in Callers, verificationId \in VerificationIds,
       t \in SampleTimestamps :
        /\ requestVerificationResult(sender, verificationId, t)
        /\ twinResults' = decryptedResults'
        /\ UNCHANGED <<caller, decoded, appVars>>

DecryptVerification ==
    \E requestId \in RequestIds, cleartexts \in SampleScores,
       proofOk \in BOOLEAN, t \in SampleTimestamps :
        /\ decryptVerification(requestId, cleartexts, proofOk, t)
        /\ twinResults' = decryptedResults'
        /\ UNCHANGED <<caller, decoded, appVars>>

Next ==
    \/ RegisterRefugee
    \/ CreatePackage
    \/ VerifyEligibility
    \/ PerformVerification
    \/ RequestVerificationResult
    \/ DecryptVerification

Spec == Init /\ [][Next]_vars

\* SpecOracle: the decryption protocol alone, requests and callbacks, on a
\* contract nothing is registered in (the requests accept any ids).
NextOracle ==
    \/ VerifyEligibility
    \/ PerformVerification
    \/ RequestVerificationResult
    \/ DecryptVerification

SpecOracle == Init /\ [][NextOracle]_vars

\* SpecReuse: the two request functions when nothing is assumed about the
\* ids of the decryption capability: it may return an id it returned before.
ReuseVerifyEligibility ==
    \E reqId \in RequestIds, sender \in Callers, refugeeId \in RefugeeIds,
       packageId \in PackageIds, t \in SampleTimestamps :
        /\ verifyEligibilityGiven(reqId, sender, refugeeId, packageId, t)
        /\ UNCHANGED <<twinResults, caller, decoded, appVars>>

ReuseRequestVerificationResult ==
    \E reqId \in RequestIds, sender \in Callers,
       verificationId \in VerificationIds, t \in SampleTimestamps :
        /\ requestVerificationResultGiven(reqId, sender, verificationId, t)
        /\ UNCHANGED <<twinResults, caller, decoded, appVars>>

NextReuse ==
    \/ ReuseVerifyEligibility
    \/ ReuseRequestVerificationResult

SpecReuse == Init /\ [][NextReuse]_vars

\* SpecTwin: two runs of the protocol side by side.  Both receive the same
\* calls; they differ only in the cleartexts that performVerification decodes.
\* No require reads eligibility or priority, so both runs take the same
\* branches and differ in decryptedResults alone, which twinResults holds for
\* the second run.
TwinVerifyEligibility ==
    \E sender \in Callers, refugeeId \in RefugeeIds, packageId \in PackageIds,
       t \in SampleTimestamps :
        /\ verifyEligibility(sender, refugeeId, packageId, t)
        /\ UNCHANGED <<twinResults, caller, decoded, appVars>>

TwinPerformVerification ==
    \E requestId \in RequestIds, cleartexts \in SampleCleartexts,
       twinCleartexts \in SampleCleartexts, proofOk \in BOOLEAN,
       t \in SampleTimestamps :
        /\ performVerification(requestId, cleartexts, proofOk, t)
        /\ twinResults' =
              IF lastCall'.result = "ok"
              THEN [twinResults EXCEPT ![verificationCount'] =
                      NewResult(
                        calculateEligibility(twinCleartexts[1], twinCleartexts[2]),
                        calculatePriority(twinCleartexts[2], twinCleartexts[3]))]
              ELSE twinResults
        /\ UNCHANGED <<caller, decoded, appVars>>

TwinRequestVerificationResult ==
    \E sender \in Callers, verificationId \in VerificationIds,
       t \in SampleTimestamps :
        /\ requestVerificationResult(sender, verificationId, t)
        /\ UNCHANGED <<twinResults, caller, decoded, appVars>>

TwinDecryptVerification ==
    \E requestId \in RequestIds, cleartexts \in SampleScores,
       proofOk \in BOOLEAN, t \in SampleTimestamps :
        /\ decryptVerification(requestId, cleartexts, proofOk, t)
        /\ twinResults' =
              IF lastCall'.result = "ok"
              THEN [twinResults EXCEPT ![verificationRequestToId[requestId]] =
                      decryptedResults'[verificationRequestToId[requestId]]]
              ELSE twinResults
        /\ UNCHANGED <<caller, decoded, appVars>>

NextTwin ==
    \/ TwinVerifyEligibility
    \/ TwinPerformVerification
    \/ TwinRequestVerificationResult
    \/ TwinDecryptVerification

SpecTwin == Init /\ [][NextTwin]_vars

\* SpecGate: the transactions behind onlyAgency, each sent by any caller,
\* authorized or not; caller holds the sender of the last one.
GateRegisterRefugee ==
    \E sender \in Callers, h \in SampleHandles, t \in SampleTimestamps :
        /\ registerEncryptedRefugee(sender, h[1], h[2], h[3], t)
        /\ caller' = sender
        /\ UNCHANGED <<twinResults, decoded, appVars>>

GateCreatePackage ==
    \E sender \in Callers, h \in SampleHandles, t \in SampleTimestamps :
        /\ createAidPackage(sender, h[1], h[2], t)
        /\ caller' = sender
        /\ UNCHANGED <<twinResults, decoded, appVars>>

GateVerifyEligibility ==
    \E sender \in Callers, refugeeId \in RefugeeIds, packageId \in PackageIds,
       t \in SampleTimestamps :
        /\ verifyEligibility(sender, refugeeId, packageId, t)
        /\ caller' = sender
        /\ UNCHANGED <<twinResults, decoded, appVars>>

GateRequestVerificationResult ==
    \E sender \in Callers, verificationId \in VerificationIds,
       t \in SampleTimestamps :
        /\ requestVerificationResult(sender, verificationId, t)
        /\ caller' = sender
        /\ UNCHANGED <<twinResults, decoded, appVars>>

NextGate ==
    \/ GateRegisterRefugee
    \/ GateCreatePackage
    \/ GateVerifyEligibility
    \/ GateRequestVerificationResult

SpecGate == Init /\ [][NextGate]_vars

\* SpecScore: the cleartexts of a run are drawn at the start; verifyEligibility
\* is called for refugee 1 and package 0 (it accepts any ids) and the oracle
\* delivers the cleartexts to performVerification for any request id.
InitScore ==
    /\ InitStore
    /\ decoded \in ScoreInputs

ScoreVerifyEligibility ==
    \E sender \in Callers, t \in SampleTimestamps :
        /\ verifyEligibility(sender, 1, 0, t)
        /\ UNCHANGED <<twinResults, caller, decoded, appVars>>

ScorePerformVerification ==
    \E requestId \in RequestIds, proofOk \in BOOLEAN, t \in SampleTimestamps :
        /\ performVerification(requestId, decoded, proofOk, t)
        /\ UNCHANGED <<twinResults, caller, decoded, appVars>>

NextScore ==
    \/ ScoreVerifyEligibility
    \/ ScorePerformVerification

SpecScore == InitScore /\ [][NextScore]_vars

\* ------------------------------------------------------ frontend handlers
\* A call of a handler holds a slot k from its start to its end and runs,
\* one step per await, in the browser session local[k].session.  Between two
\* steps of a call anything else may run: other calls of the same session,
\* the other sessions, the timers, the clock.
IsFreeSlot(k) ==
    /\ pc[k] = "idle"
    /\ \A j \in Tasks : j < k => pc[j] # "idle"

Start(k, c, fn, label) ==
    /\ pc' = [pc EXCEPT ![k] = label]
    /\ local' = [local EXCEPT ![k] = [NoLocal EXCEPT !.session = c, !.fn = fn]]

Goto(k, label) == pc' = [pc EXCEPT ![k] = label]

Return(k) ==
    /\ pc' = [pc EXCEPT ![k] = "idle"]
    /\ local' = [local EXCEPT ![k] = NoLocal]

setTransactionStatus(c, status) ==
    transactionStatus' = [transactionStatus EXCEPT ![c] = status]

\* setTimeout(() => setTransactionStatus({visible: false, ...}), ms); the
\* timer of submitRecord's success also closes the modal and empties the form
setTimeout(c) == timers' = [timers EXCEPT ![c] = @ + 1]

\* the callback of a timer, 2000 or 3000 ms after the handler that set it
fireTimer(c) ==
    /\ timers[c] > 0
    /\ timers' = [timers EXCEPT ![c] = @ - 1]
    /\ setTransactionStatus(c, NoStatus)
    /\ UNCHANGED <<walletVars, clock, aidKeys, aidData, pc, local, records, isRefreshing,
                   creating>>

\* Date.now() moves on
Tick ==
    /\ clock < MaxClock
    /\ clock' = clock + 1
    /\ UNCHANGED <<walletVars, aidKeys, aidData, pc, local, records,
                   transactionStatus, timers, isRefreshing, creating>>

\* the message the catch block of a handler shows
submitErrorMessage(message) ==
    IF includes(message, "user rejected transaction")
    THEN "Transaction rejected by user"
    ELSE "Submission failed: " \o OrUnknownError(message)

approveErrorMessage(message) ==
    "Verification failed: " \o OrUnknownError(message)

distributeErrorMessage(message) ==
    "Distribution failed: " \o OrUnknownError(message)

errorMessage(fn, message) ==
    CASE fn = "submitRecord" -> submitErrorMessage(message)
      [] fn = "approveRecord" -> approveErrorMessage(message)
      [] fn = "distributeRecord" -> distributeErrorMessage(message)

\* the catch and finally blocks of a handler: the error is shown, a timer
\* is set to hide it, nothing that was stored is undone
Catch(k, message) ==
    LET c == local[k].session
        fn == local[k].fn
    IN  /\ setTransactionStatus(c, Status("error", errorMessage(fn, message)))
        /\ setTimeout(c)
        /\ creating' = IF fn = "submitRecord"
                       THEN [creating EXCEPT ![c] = FALSE]
                       ELSE creating
        /\ Return(k)

\* ---- loadRecords
\* the entry of `list` loadRecords builds from a stored record; the defaults
\* (status || "pending", amount || 0, location || "", needs || []) replace
\* a falsy value: the amount "" becomes the number 0, and the location ""
\* and the empty needs are the defaults themselves
AidRecord(key, recordData) ==
    [id |-> key,
     encryptedData |-> recordData.data,
     timestamp |-> recordData.timestamp,
     owner |-> recordData.owner,
     category |-> recordData.category,
     status |-> IF recordData.status = "" THEN "pending" ELSE recordData.status,
     amount |-> IF Falsy(recordData.amount) THEN numberValue(0)
                ELSE recordData.amount,
     location |-> recordData.location,
     needs |-> recordData.needs]

\* list.sort((a, b) => b.timestamp - a.timestamp): stable, newest first
RECURSIVE SortByTimestamp(_)
SortByTimestamp(list) ==
    IF list = <<>> THEN <<>>
    ELSE LET last == list[Len(list)]
             front == SortByTimestamp(SubSeq(list, 1, Len(list) - 1))
             k == Cardinality({i \in 1..Len(front) :
                                  front[i].timestamp >= last.timestamp})
         IN  SubSeq(front, 1, k) \o <<last>> \o SubSeq(front, k + 1, Len(front))

\* loadRecords up to its first await
loadRecords(k, c, fn) ==
    /\ isRefreshing' = [isRefreshing EXCEPT ![c] = TRUE]
    /\ Start(k, c, fn, "load_getContract")

\* the finally block of loadRecords and, in a handler that awaited it, the
\* rest of the handler: the timer that hides the success message
loadRecords_finally(k) ==
    LET c == local[k].session
        fn == local[k].fn
    IN  /\ isRefreshing' = [isRefreshing EXCEPT ![c] = FALSE]
        /\ IF fn = "loadRecords"
           THEN UNCHANGED timers
           ELSE setTimeout(c)
        /\ creating' = IF fn = "submitRecord"
                       THEN [creating EXCEPT ![c] = FALSE]
                       ELSE creating
        /\ Return(k)

\* list.sort(...); setRecords(list)
setRecords(k, list) ==
    records' = [records EXCEPT ![local[k].session] = SortByTimestamp(list)]

\* await getContractReadOnly(); if (!contract) return
loadRecords_getContract(k, outcome, contract) ==
    /\ pc[k] = "load_getContract"
    /\ IF outcome.thrown \/ ~contract
       THEN loadRecords_finally(k)
       ELSE /\ Goto(k, "load_isAvailable")
            /\ UNCHANGED <<local, timers, isRefreshing, creating>>
    /\ UNCHANGED <<walletVars, clock, aidKeys, aidData, records, transactionStatus>>

\* await contract.isAvailable(); if (!isAvailable) return
loadRecords_isAvailable(k, outcome, isAvailable) ==
    /\ pc[k] = "load_isAvailable"
    /\ IF outcome.thrown \/ ~isAvailable
       THEN loadRecords_finally(k)
       ELSE /\ Goto(k, "load_getData_keys")
            /\ UNCHANGED <<local, timers, isRefreshing, creating>>
    /\ UNCHANGED <<walletVars, clock, aidKeys, aidData, records, transactionStatus>>

\* await contract.getData("aid_keys"); with no key the loop is not entered
loadRecords_getData_keys(k, outcome) ==
    /\ pc[k] = "load_getData_keys"
    /\ IF outcome.thrown
       THEN loadRecords_finally(k) /\ UNCHANGED records
       ELSE LET keys == readKeys(getKeysData)
            IN  IF keys = <<>>
                THEN setRecords(k, <<>>) /\ loadRecords_finally(k)
                ELSE /\ Goto(k, "load_getData_record")
                     /\ local' = [local EXCEPT ![k].keys = keys,
                                               ![k].list = <<>>]
                     /\ UNCHANGED <<records, timers, isRefreshing, creating>>
    /\ UNCHANGED <<walletVars, clock, aidKeys, aidData, transactionStatus>>

\* one turn of the loop: await contract.getData(`aid_${key}`) for the first
\* of the keys still to load; a key whose read throws, or with nothing
\* stored under it, is skipped; after the last key the list is sorted and set
loadRecords_getData_record(k, outcome) ==
    /\ pc[k] = "load_getData_record"
    /\ LET key == Head(local[k].keys)
           rest == Tail(local[k].keys)
           recordBytes == getRecordData(key)
           list == IF ~outcome.thrown /\ Len(recordBytes) > 0
                   THEN Append(local[k].list,
                               AidRecord(key, parseJSON(recordBytes)))
                   ELSE local[k].list
       IN  IF rest = <<>>
           THEN setRecords(k, list) /\ loadRecords_finally(k)
           ELSE /\ local' = [local EXCEPT ![k].keys = rest, ![k].list = list]
                /\ UNCHANGED <<pc, records, timers, isRefreshing, creating>>
    /\ UNCHANGED <<walletVars, clock, aidKeys, aidData, transactionStatus>>

\* ---- submitRecord
\* submitRecord up to its first await.  Without a wallet it alerts and
\* returns.  When btoa throws, no call is awaited: the catch block shows the
\* error, `thrown` being the e.message of the exception in the runtime of
\* the page, and sets the timer, the finally block clears `creating`.  The call keeps the account
\* and the form of the render it was started from.
submitRecord(k, c, newRecordData, thrown) ==
    IF ~provider[c]
    THEN UNCHANGED pageVars
    ELSE IF ~btoaAccepts(newRecordData)
    THEN /\ setTransactionStatus(c,
                Status("error", submitErrorMessage(thrown)))
         /\ setTimeout(c)
         /\ creating' = [creating EXCEPT ![c] = FALSE]
         /\ UNCHANGED <<walletVars, clock, aidKeys, aidData, pc, local,
                        records, isRefreshing>>
    ELSE /\ creating' = [creating EXCEPT ![c] = TRUE]
         /\ setTransactionStatus(c,
                Status("pending", "Encrypting sensitive data with FHE..."))
         /\ pc' = [pc EXCEPT ![k] = "submit_getContract"]
         /\ local' = [local EXCEPT ![k] =
                         [NoLocal EXCEPT !.session = c, !.fn = "submitRecord",
                                         !.account = account[c],
                                         !.form = newRecordData]]
         /\ UNCHANGED <<walletVars, clock, aidKeys, aidData, records, timers,
                        isRefreshing>>

\* handleSubmit of the create modal: the required fields are checked
handleSubmit(k, c, recordData, thrown) ==
    IF recordData.category = "" \/ Falsy(recordData.amount)
       \/ recordData.location = <<>>
    THEN UNCHANGED pageVars
    ELSE submitRecord(k, c, recordData, thrown)

\* await getContractWithSigner(); Date.now() is read twice, for the id and
\* then for the timestamp: `later` is the second reading, which is where
\* the clock stands afterwards
submitRecord_getContract(k, outcome, contract, random, later) ==
    /\ pc[k] = "submit_getContract"
    /\ IF outcome.thrown
       THEN Catch(k, outcome.message) /\ UNCHANGED clock
       ELSE IF ~contract
       THEN Catch(k, <<"Failed to get contract with signer">>)
            /\ UNCHANGED clock
       ELSE /\ later >= clock
            /\ local' = [local EXCEPT
                  ![k].recordId = newRecordId(clock, random),
                  ![k].recordData =
                      newRecord(later, local[k].account, local[k].form)]
            /\ clock' = later
            /\ Goto(k, "submit_setData_record")
            /\ UNCHANGED <<transactionStatus, timers, creating>>
    /\ UNCHANGED <<walletVars, aidKeys, aidData, records, isRefreshing>>

\* await contract.setData(`aid_${recordId}`, ...)
submitRecord_setData_record(k, outcome) ==
    /\ pc[k] = "submit_setData_record"
    /\ IF outcome.thrown
       THEN Catch(k, outcome.message) /\ UNCHANGED aidData
       ELSE /\ aidData' = setRecordData(local[k].recordId,
                                        toUtf8Bytes(local[k].recordData))
            /\ Goto(k, "submit_getData_keys")
            /\ UNCHANGED <<local, transactionStatus, timers, creating>>
    /\ UNCHANGED <<walletVars, clock, aidKeys, records, isRefreshing>>

\* await contract.getData("aid_keys"); keys.push(recordId)
submitRecord_getData_keys(k, outcome) ==
    /\ pc[k] = "submit_getData_keys"
    /\ IF outcome.thrown
       THEN Catch(k, outcome.message)
       ELSE /\ local' = [local EXCEPT ![k].keys =
                            pushKey(readKeys(getKeysData), local[k].recordId)]
            /\ Goto(k, "submit_setData_keys")
            /\ UNCHANGED <<transactionStatus, timers, creating>>
    /\ UNCHANGED <<walletVars, clock, aidKeys, aidData, records, isRefreshing>>

\* await contract.setData("aid_keys", ...); then the success message and
\* loadRecords up to its first await
submitRecord_setData_keys(k, outcome) ==
    /\ pc[k] = "submit_setData_keys"
    /\ IF outcome.thrown
       THEN Catch(k, outcome.message) /\ UNCHANGED <<aidKeys, isRefreshing>>
       ELSE /\ aidKeys' = toUtf8Bytes(local[k].keys)
            /\ setTransactionStatus(local[k].session,
                   Status("success", "Encrypted aid request submitted securely!"))
            /\ loadRecords(k, local[k].session, "submitRecord")
            /\ UNCHANGED <<timers, creating>>
    /\ UNCHANGED <<walletVars, clock, aidData, records>>

\* ---- approveRecord, distributeRecord
\* the row of recordId in the session's list shows this status
Shows(c, recordId, status) ==
    \E i \in 1..Len(records[c]) :
        /\ records[c][i].id = recordId
        /\ records[c][i].status = status

\* the ids a handler may be given: those of the rows a session lists
Listed(c) == {records[c][i].id : i \in 1..Len(records[c])}

\* a status handler up to its first await
startStatusHandler(k, c, recordId, fn, pending) ==
    IF ~provider[c]
    THEN UNCHANGED pageVars
    ELSE /\ setTransactionStatus(c, Status("pending", pending))
         /\ pc' = [pc EXCEPT ![k] = "status_getContract"]
         /\ local' = [local EXCEPT ![k] =
                         [NoLocal EXCEPT !.session = c, !.fn = fn,
                                         !.recordId = recordId]]
         /\ UNCHANGED <<walletVars, clock, aidKeys, aidData, records, timers, isRefreshing,
                        creating>>

approveRecord(k, c, recordId) ==
    startStatusHandler(k, c, recordId, "approveRecord",
                       "Processing FHE verification...")

distributeRecord(k, c, recordId) ==
    startStatusHandler(k, c, recordId, "distributeRecord",
                       "Processing FHE distribution...")

\* await getContractWithSigner()
statusHandler_getContract(k, outcome, contract) ==
    /\ pc[k] = "status_getContract"
    /\ IF outcome.thrown
       THEN Catch(k, outcome.message)
       ELSE IF ~contract
       THEN Catch(k, <<"Failed to get contract with signer">>)
       ELSE /\ Goto(k, "status_getData")
            /\ UNCHANGED <<local, transactionStatus, timers, creating>>
    /\ UNCHANGED <<walletVars, clock, aidKeys, aidData, records, isRefreshing>>

\* await contract.getData(`aid_${recordId}`): the record is read back, its
\* stored status is not looked at
readRecord(k, outcome) ==
    /\ pc[k] = "status_getData"
    /\ LET recordBytes == getRecordData(local[k].recordId)
       IN  IF outcome.thrown
           THEN Catch(k, outcome.message)
           ELSE IF Len(recordBytes) = 0
           THEN Catch(k, <<"Record not found">>)
           ELSE /\ local' = [local EXCEPT
                                ![k].recordData = parseJSON(recordBytes)]
                /\ Goto(k, "status_setData")
                /\ UNCHANGED <<transactionStatus, timers, creating>>
    /\ UNCHANGED <<walletVars, clock, aidKeys, aidData, records, isRefreshing>>

\* the status a handler writes and the message it shows
newStatus(fn) ==
    IF fn = "approveRecord" THEN "approved" ELSE "distributed"

successMessage(fn) ==
    IF fn = "approveRecord"
    THEN "FHE verification completed - Aid approved!"
    ELSE "Aid distributed successfully with FHE protection!"

\* await contract.setData(`aid_${recordId}`, {...recordData, status}); then
\* the success message and loadRecords up to its first await
writeStatus(k, outcome) ==
    /\ pc[k] = "status_setData"
    /\ LET c == local[k].session
           fn == local[k].fn
           updatedRecord ==
               [local[k].recordData EXCEPT !.status = newStatus(fn)]
       IN  IF outcome.thrown
           THEN Catch(k, outcome.message) /\ UNCHANGED <<aidData, isRefreshing>>
           ELSE /\ aidData' = setRecordData(local[k].recordId,
                                            toUtf8Bytes(updatedRecord))
                /\ setTransactionStatus(c,
                       Status("success", successMessage(fn)))
                /\ loadRecords(k, c, fn)
                /\ UNCHANGED <<timers, creating>>
    /\ UNCHANGED <<walletVars, clock, aidKeys, records>>

\* ---- the wallet
\* onWalletSelect up to its await: the provider is set before the accounts
\* are asked for, and stays set whatever the answer is
onWalletSelect(c, wallet) ==
    IF ~wallet.provider
    THEN UNCHANGED pageVars
    ELSE /\ provider' = [provider EXCEPT ![c] = TRUE]
         /\ connecting' = [connecting EXCEPT ![c] = @ + 1]
         /\ UNCHANGED <<account, listening, clock, aidKeys, aidData, pc, local,
                        records, transactionStatus, timers, isRefreshing,
                        creating>>

\* await web3Provider.send("eth_requestAccounts", []): the first account, or
\* "" when there is none, and the accountsChanged listener; a request that
\* throws ends in an alert
onWalletSelect_requestAccounts(c, outcome, accounts) ==
    /\ connecting[c] > 0
    /\ connecting' = [connecting EXCEPT ![c] = @ - 1]
    /\ IF outcome.thrown
       THEN UNCHANGED <<account, listening>>
       ELSE /\ account' = [account EXCEPT ![c] = FirstAccount(accounts)]
            /\ listening' = [listening EXCEPT ![c] = TRUE]
    /\ UNCHANGED <<provider, clock, aidKeys, aidData, pc, local, records,
                   transactionStatus, timers, isRefreshing, creating>>

\* the listener of the wallet's accountsChanged event
accountsChanged(c, accounts) ==
    /\ listening[c]
    /\ account' = [account EXCEPT ![c] = FirstAccount(accounts)]
    /\ UNCHANGED <<provider, listening, connecting, clock, aidKeys, aidData,
                   pc, local, records, transactionStatus, timers, isRefreshing,
                   creating>>

\* onDisconnect: the listener stays on the wallet
onDisconnect(c) ==
    /\ account' = [account EXCEPT ![c] = ""]
    /\ provider' = [provider EXCEPT ![c] = FALSE]
    /\ UNCHANGED <<listening, connecting, clock, aidKeys, aidData, pc, local,
                   records, transactionStatus, timers, isRefreshing, creating>>

\* ---- the page's buttons
\* the submit button of the create modal is disabled while creating
clickSubmit(k, c, recordData, thrown) ==
    /\ ~creating[c]
    /\ handleSubmit(k, c, recordData, thrown)

\* the Refresh button is disabled while isRefreshing
clickRefresh(k, c) ==
    /\ ~isRefreshing[c]
    /\ loadRecords(k, c, "loadRecords")
    /\ UNCHANGED <<walletVars, clock, aidKeys, aidData, records, transactionStatus,
                   timers, creating>>

\* the Approve button is rendered for a row whose status is "pending"
clickApprove(k, c, recordId) ==
    /\ Shows(c, recordId, "pending")
    /\ approveRecord(k, c, recordId)

\* the Distribute button is rendered for a row whose status is "approved"
clickDistribute(k, c, recordId) ==
    /\ Shows(c, recordId, "approved")
    /\ distributeRecord(k, c, recordId)

\* ---- what is explored
\* the awaits of submitRecord before its loadRecords
SubmitAwaits ==
    {"submit_getContract", "submit_setData_record", "submit_getData_keys",
     "submit_setData_keys"}

\* the calls of submitRecord that have not written the index yet
Submitting == {k \in Tasks : pc[k] \in SubmitAwaits}

\* the buttons start MaxCalls calls; a click that only alerts starts none
CalledWithin(max) ==
    /\ calls < max
    /\ calls' = IF pc' # pc THEN calls + 1 ELSE calls

Called == CalledWithin(MaxCalls)

\* a step that sets a timer waits while MaxTimers of the session are pending
TimersWithinBound == \A c \in Clients : timers'[c] <= MaxTimers

\* a step of a call that is running
Stepped == TimersWithinBound /\ UNCHANGED <<contractVars, calls>>

\* a submitRecord is started while the index will stay within MaxKeys
KeysWithinBound ==
    Len(readKeys(getKeysData)) + Cardinality(Submitting) < MaxKeys

\* SpecApp: browser sessions running their handlers concurrently.  Session
\* 2, whose wallet gave it no account, fills in the form and submits;
\* session 1 leaves the amount of its form untouched and reviews what is
\* listed.  The awaits are explored with one error; the last write of
\* submitRecord, the transaction a user is asked to sign when the record is
\* already stored, with all of them
AppOutcomes == {Ok, Error(<<"transaction failed">>)}

AppForms(c) ==
    IF c = 1 THEN {AmountLeft} ELSE {ZeroTyped, AmountErased, LineSeparator}

AppClickSubmit ==
    \E k \in Tasks, c \in Clients :
      \E recordData \in AppForms(c), runtime \in Runtimes :
        /\ IsFreeSlot(k)
        /\ KeysWithinBound
        /\ clickSubmit(k, c, recordData, btoaError(runtime))
        /\ TimersWithinBound
        /\ Called /\ UNCHANGED contractVars

AppSubmitGetContract ==
    \E k \in Tasks, outcome \in AppOutcomes, contract \in BOOLEAN,
       random \in SampleRandoms, later \in Clock :
        submitRecord_getContract(k, outcome, contract, random, later)
        /\ Stepped

AppSubmitSetDataRecord ==
    \E k \in Tasks, outcome \in AppOutcomes :
        submitRecord_setData_record(k, outcome) /\ Stepped

AppSubmitGetDataKeys ==
    \E k \in Tasks, outcome \in AppOutcomes :
        submitRecord_getData_keys(k, outcome) /\ Stepped

AppSubmitSetDataKeys ==
    \E k \in Tasks, outcome \in SampleOutcomes :
        submitRecord_setData_keys(k, outcome) /\ Stepped

AppClickRefresh ==
    \E k \in Tasks, c \in Clients :
        IsFreeSlot(k) /\ clickRefresh(k, c) /\ Called /\ UNCHANGED contractVars

AppLoadGetContract ==
    \E k \in Tasks, outcome \in AppOutcomes, contract \in BOOLEAN :
        loadRecords_getContract(k, outcome, contract) /\ Stepped

AppLoadIsAvailable ==
    \E k \in Tasks, outcome \in AppOutcomes, isAvailable \in BOOLEAN :
        loadRecords_isAvailable(k, outcome, isAvailable)
        /\ Stepped

AppLoadGetDataKeys ==
    \E k \in Tasks, outcome \in AppOutcomes :
        loadRecords_getData_keys(k, outcome) /\ Stepped

AppLoadGetDataRecord ==
    \E k \in Tasks, outcome \in AppOutcomes :
        loadRecords_getData_record(k, outcome) /\ Stepped

AppClickApprove ==
    \E k \in Tasks, c \in Clients :
        \E recordId \in Listed(c) :
            /\ IsFreeSlot(k)
                /\ clickApprove(k, c, recordId)
            /\ Called /\ UNCHANGED contractVars

AppClickDistribute ==
    \E k \in Tasks, c \in Clients :
        \E recordId \in Listed(c) :
            /\ IsFreeSlot(k)
                /\ clickDistribute(k, c, recordId)
            /\ Called /\ UNCHANGED contractVars

AppStatusGetContract ==
    \E k \in Tasks, outcome \in AppOutcomes, contract \in BOOLEAN :
        statusHandler_getContract(k, outcome, contract)
        /\ Stepped

AppReadRecord ==
    \E k \in Tasks, outcome \in AppOutcomes :
        readRecord(k, outcome) /\ Stepped

AppWriteStatus ==
    \E k \in Tasks, outcome \in AppOutcomes :
        writeStatus(k, outcome) /\ Stepped

AppFireTimer ==
    \E c \in Clients : fireTimer(c) /\ UNCHANGED <<contractVars, calls>>

AppTick == Tick /\ UNCHANGED <<contractVars, calls>>

NextApp ==
    \/ AppClickSubmit
    \/ AppSubmitGetContract
    \/ AppSubmitSetDataRecord
    \/ AppSubmitGetDataKeys
    \/ AppSubmitSetDataKeys
    \/ AppClickRefresh
    \/ AppLoadGetContract
    \/ AppLoadIsAvailable
    \/ AppLoadGetDataKeys
    \/ AppLoadGetDataRecord
    \/ AppClickApprove
    \/ AppClickDistribute
    \/ AppStatusGetContract
    \/ AppReadRecord
    \/ AppWriteStatus
    \/ AppFireTimer
    \/ AppTick

SpecApp == InitRejected /\ [][NextApp]_vars

\* SpecSeq: submitRecord run one call after another, every awaited call
\* returning; the sessions refresh their lists at any time.  Session 2 has
\* a wallet of its own.
NoHandlerRunning ==
    \A k \in Tasks : pc[k] = "idle" \/ local[k].fn = "loadRecords"

SeqClickSubmit ==
    \E k \in Tasks, c \in Clients :
      \E recordData \in FormsOf(c), runtime \in Runtimes :
        /\ NoHandlerRunning
        /\ IsFreeSlot(k)
        /\ KeysWithinBound
        /\ clickSubmit(k, c, recordData, btoaError(runtime))
        /\ TimersWithinBound
        /\ Called /\ UNCHANGED contractVars

SeqSubmitGetContract ==
    \E k \in Tasks, random \in SampleRandoms, later \in Clock :
        submitRecord_getContract(k, Ok, TRUE, random, later) /\ Stepped

SeqSubmitSetDataRecord ==
    \E k \in Tasks :
        submitRecord_setData_record(k, Ok) /\ Stepped

SeqSubmitGetDataKeys ==
    \E k \in Tasks :
        submitRecord_getData_keys(k, Ok) /\ Stepped

SeqSubmitSetDataKeys ==
    \E k \in Tasks :
        submitRecord_setData_keys(k, Ok) /\ Stepped

NextSeq ==
    \/ SeqClickSubmit
    \/ SeqSubmitGetContract
    \/ SeqSubmitSetDataRecord
    \/ SeqSubmitGetDataKeys
    \/ SeqSubmitSetDataKeys
    \/ AppClickRefresh
    \/ AppLoadGetContract
    \/ AppLoadIsAvailable
    \/ AppLoadGetDataKeys
    \/ AppLoadGetDataRecord
    \/ AppFireTimer
    \/ AppTick

SpecSeq == InitOtherWallet /\ [][NextSeq]_vars

\* SpecRace: two pages of one wallet running submitRecord concurrently,
\* every awaited call of submitRecord returning
RaceClickSubmit ==
    \E k \in Tasks, c \in Clients :
      \E recordData \in FormsOf(c), runtime \in Runtimes :
        /\ IsFreeSlot(k)
        /\ KeysWithinBound
        /\ clickSubmit(k, c, recordData, btoaError(runtime))
        /\ TimersWithinBound
        /\ Called /\ UNCHANGED contractVars

NextRace ==
    \/ RaceClickSubmit
    \/ SeqSubmitGetContract
    \/ SeqSubmitSetDataRecord
    \/ SeqSubmitGetDataKeys
    \/ SeqSubmitSetDataKeys
    \/ AppClickRefresh
    \/ AppLoadGetContract
    \/ AppLoadIsAvailable
    \/ AppLoadGetDataKeys
    \/ AppLoadGetDataRecord
    \/ AppFireTimer
    \/ AppTick

SpecRace == InitSameWallet /\ [][NextRace]_vars

\* SpecWallet: the sessions selecting, changing and disconnecting their
\* wallets around one submitRecord each, every awaited call of submitRecord
\* returning
WalletSelect ==
    \E c \in Clients, wallet \in {[provider |-> TRUE], [provider |-> FALSE]} :
        /\ connecting[c] = 0
        /\ onWalletSelect(c, wallet)
        /\ UNCHANGED <<contractVars, calls>>

WalletRequestAccounts ==
    \E c \in Clients, outcome \in AppOutcomes, accounts \in SampleAccounts :
        /\ onWalletSelect_requestAccounts(c, outcome, accounts)
        /\ UNCHANGED <<contractVars, calls>>

WalletAccountsChanged ==
    \E c \in Clients, accounts \in SampleAccounts :
        accountsChanged(c, accounts) /\ UNCHANGED <<contractVars, calls>>

WalletDisconnect ==
    \E c \in Clients : onDisconnect(c) /\ UNCHANGED <<contractVars, calls>>

WalletClickSubmit ==
    \E k \in Tasks, c \in Clients :
      \E recordData \in FormsOf(c), runtime \in Runtimes :
        /\ IsFreeSlot(k)
        /\ KeysWithinBound
        /\ clickSubmit(k, c, recordData, btoaError(runtime))
        /\ TimersWithinBound
        /\ CalledWithin(MaxWalletCalls)
        /\ UNCHANGED contractVars

NextWallet ==
    \/ WalletSelect
    \/ WalletRequestAccounts
    \/ WalletAccountsChanged
    \/ WalletDisconnect
    \/ WalletClickSubmit
    \/ SeqSubmitGetContract
    \/ SeqSubmitSetDataRecord
    \/ SeqSubmitGetDataKeys
    \/ SeqSubmitSetDataKeys
    \/ AppLoadGetContract
    \/ AppLoadIsAvailable
    \/ AppLoadGetDataKeys
    \/ AppLoadGetDataRecord
    \/ AppFireTimer

SpecWallet == Init /\ [][NextWallet]_vars

\* the frontend's store after one submitRecord of session 1 went through and
\* its timer fired
InitSubmitted ==
    LET recordId == newRecordId(FirstClock, "k3j9x1a")
        recordData == newRecord(FirstClock, "0xA1", FilledForm)
    IN  /\ clock = FirstClock + 1
        /\ aidKeys = toUtf8Bytes(pushKey(<<>>, recordId))
        /\ aidData = [k \in {recordId} |-> toUtf8Bytes(recordData)]
        /\ pc = [k \in Tasks |-> "idle"]
        /\ local = [k \in Tasks |-> NoLocal]
        /\ records = [c \in Clients |->
                          IF c = 1 THEN <<AidRecord(recordId, recordData)>>
                          ELSE <<>>]
        /\ transactionStatus = [c \in Clients |-> NoStatus]
        /\ timers = [c \in Clients |-> 0]
        /\ isRefreshing = [c \in Clients |-> FALSE]
        /\ creating = [c \in Clients |-> FALSE]
        /\ Connected("0xB2")
        /\ calls = 1

\* the frontend after one submitRecord of session 1 went through and both
\* sessions loaded their lists (session 2's first loadRecords came after it)
InitListed ==
    LET recordId == newRecordId(FirstClock, "k3j9x1a")
        recordData == newRecord(FirstClock, "0xA1", FilledForm)
    IN  /\ clock = FirstClock + 1
        /\ aidKeys = toUtf8Bytes(pushKey(<<>>, recordId))
        /\ aidData = [k \in {recordId} |-> toUtf8Bytes(recordData)]
        /\ pc = [k \in Tasks |-> "idle"]
        /\ local = [k \in Tasks |-> NoLocal]
        /\ records = [c \in Clients |-> <<AidRecord(recordId, recordData)>>]
        /\ transactionStatus = [c \in Clients |-> NoStatus]
        /\ timers = [c \in Clients |-> 0]
        /\ isRefreshing = [c \in Clients |-> FALSE]
        /\ creating = [c \in Clients |-> FALSE]
        /\ Connected("0xB2")
        /\ calls = 1

\* SpecStatus: the sessions approving and distributing the record both list
InitStatus ==
    /\ InitContract
    /\ InitListed
    /\ decoded = <<<<>>, <<>>, <<>>>>

StatusClickRefresh ==
    \E k \in Tasks, c \in Clients :
        /\ IsFreeSlot(k)
        /\ clickRefresh(k, c)
        /\ CalledWithin(MaxStatusCalls)
        /\ UNCHANGED contractVars

StatusClickApprove ==
    \E k \in Tasks, c \in Clients :
        \E recordId \in Listed(c) :
            /\ IsFreeSlot(k)
            /\ clickApprove(k, c, recordId)
            /\ CalledWithin(MaxStatusCalls)
            /\ UNCHANGED contractVars

StatusClickDistribute ==
    \E k \in Tasks, c \in Clients :
        \E recordId \in Listed(c) :
            /\ IsFreeSlot(k)
            /\ clickDistribute(k, c, recordId)
            /\ CalledWithin(MaxStatusCalls)
            /\ UNCHANGED contractVars

NextStatus ==
    \/ StatusClickRefresh
    \/ StatusClickApprove
    \/ StatusClickDistribute
    \/ AppLoadGetContract
    \/ AppLoadIsAvailable
    \/ AppLoadGetDataKeys
    \/ AppLoadGetDataRecord
    \/ AppStatusGetContract
    \/ AppReadRecord
    \/ AppWriteStatus
    \/ AppFireTimer

SpecStatus == InitStatus /\ [][NextStatus]_vars

\* SpecCascade: the contract's transactions while the frontend's store holds
\* a pending aid record
InitCascade ==
    /\ InitContract
    /\ InitSubmitted
    /\ decoded = <<<<>>, <<>>, <<>>>>

\* cleartexts that score eligibility 100, and the scores a reveal returns
EligibleCleartexts == {<<Str(1, 11), Str(2, 6), Str(2, 6)>>}

EligibleScores == {<<100, 100>>}

CascadeRegisterRefugee ==
    \E h \in SampleHandles, t \in SampleTimestamps :
        /\ registerEncryptedRefugee("agency", h[1], h[2], h[3], t)
        /\ UNCHANGED <<twinResults, caller, decoded, appVars>>

CascadeCreatePackage ==
    \E h \in SampleHandles, t \in SampleTimestamps :
        /\ createAidPackage("agency", h[1], h[2], t)
        /\ UNCHANGED <<twinResults, caller, decoded, appVars>>

CascadeVerifyEligibility ==
    \E refugeeId \in RefugeeIds, packageId \in PackageIds,
       t \in SampleTimestamps :
        /\ verifyEligibility("agency", refugeeId, packageId, t)
        /\ UNCHANGED <<twinResults, caller, decoded, appVars>>

CascadePerformVerification ==
    \E requestId \in RequestIds, cleartexts \in EligibleCleartexts,
       proofOk \in BOOLEAN, t \in SampleTimestamps :
        /\ performVerification(requestId, cleartexts, proofOk, t)
        /\ UNCHANGED <<twinResults, caller, decoded, appVars>>

CascadeRequestVerificationResult ==
    \E verificationId \in VerificationIds, t \in SampleTimestamps :
        /\ requestVerificationResult("agency", verificationId, t)
        /\ UNCHANGED <<twinResults, caller, decoded, appVars>>

CascadeDecryptVerification ==
    \E requestId \in RequestIds, cleartexts \in EligibleScores,
       proofOk \in BOOLEAN, t \in SampleTimestamps :
        /\ decryptVerification(requestId, cleartexts, proofOk, t)
        /\ UNCHANGED <<twinResults, caller, decoded, appVars>>

NextCascade ==
    \/ CascadeRegisterRefugee
    \/ CascadeCreatePackage
    \/ CascadeVerifyEligibility
    \/ CascadePerformVerification
    \/ CascadeRequestVerificationResult
    \/ CascadeDecryptVerification

SpecCascade == InitCascade /\ [][NextCascade]_vars

\* SpecPackage: every eligibility request names an existing package
PackageVerifyEligibility ==
    \E sender \in Callers, refugeeId \in RefugeeIds,
       packageId \in 1..packageCount, t \in SampleTimestamps :
        /\ verifyEligibility(sender, refugeeId, packageId, t)
        /\ UNCHANGED <<twinResults, caller, decoded, appVars>>

NextPackage ==
    \/ CascadeRegisterRefugee
    \/ CascadeCreatePackage
    \/ PackageVerifyEligibility
    \/ CascadePerformVerification

SpecPackage == Init /\ [][NextPackage]_vars

\* SpecLive: eligibility requests and an oracle that answers every request
\* still waiting with a valid proof.  The number of requests is kept within
\* MaxVerifications, so that every answer finds room for its Verification.
Outstanding(requestId) ==
    /\ IssuedFor("performVerification", requestId)
    /\ \A v \in 1..Len(createdBy) : createdBy[v] # requestId

LiveRegisterRefugee ==
    \E h \in SampleHandles, t \in SampleTimestamps :
        /\ registerEncryptedRefugee("agency", h[1], h[2], h[3], t)
        /\ UNCHANGED <<twinResults, caller, decoded, appVars>>

LiveVerifyEligibility ==
    \E sender \in Callers, refugeeId \in RefugeeIds, packageId \in PackageIds,
       t \in SampleTimestamps :
        /\ Len(issued) < MaxVerifications
        /\ verifyEligibility(sender, refugeeId, packageId, t)
        /\ UNCHANGED <<twinResults, caller, decoded, appVars>>

\* the oracle's answer to a waiting request, with a proof that passes
Deliver(requestId) ==
    \E cleartexts \in SampleCleartexts, t \in SampleTimestamps :
        /\ Outstanding(requestId)
        /\ performVerification(requestId, cleartexts, TRUE, t)
        /\ UNCHANGED <<twinResults, caller, decoded, appVars>>

LiveDeliver == \E requestId \in RequestIds : Deliver(requestId)

\* a delivery whose proof fails the check
LiveBadDelivery ==
    \E requestId \in RequestIds, cleartexts \in SampleCleartexts,
       t \in SampleTimestamps :
        /\ performVerification(requestId, cleartexts, FALSE, t)
        /\ UNCHANGED <<twinResults, caller, decoded, appVars>>

NextLive ==
    \/ LiveRegisterRefugee
    \/ LiveVerifyEligibility
    \/ LiveDeliver
    \/ LiveBadDelivery

SpecLive ==
    /\ Init
    /\ [][NextLive]_vars
    /\ \A requestId \in RequestIds : WF_vars(Deliver(requestId))

\* SpecHonest: the decryption protocol with an oracle that answers a reveal
\* request with the decryption of the two handles the request was submitted
\* with: those requestVerificationResult read when it ran
HonestDecryptVerification ==
    \E requestId \in RequestIds, proofOk \in BOOLEAN, t \in SampleTimestamps :
        /\ IssuedFor("decryptVerification", requestId)
        /\ LET ciphertexts == CiphertextsOf(requestId)
               cleartexts == <<decrypt(ciphertexts[1]), decrypt(ciphertexts[2])>>
           IN  decryptVerification(requestId, cleartexts, proofOk, t)
        /\ twinResults' = decryptedResults'
        /\ UNCHANGED <<caller, decoded, appVars>>

NextHonest ==
    \/ VerifyEligibility
    \/ PerformVerification
    \/ RequestVerificationResult
    \/ HonestDecryptVerification

SpecHonest == Init /\ [][NextHonest]_vars

\* ----------------------------------------------------------------- claims
Verifications == 1..verificationCount

\* what a callback may not touch when it is rejected
callbackState == <<store, createdBy, resultDecrypted>>

\* C1: a requestId creates at most one Verification: a performVerification
\* replayed with a requestId that already produced a Verification is rejected,
\* so there are never more Verifications than verifyEligibility requests.
C1_AtMostOneVerificationPerRequest ==
    /\ \A i, j \in 1..Len(createdBy) :
          i # j => createdBy[i] # createdBy[j]
    /\ verificationCount <=
          Cardinality({r \in RequestIds : IssuedFor("performVerification", r)})

\* C2: a callback whose requestId was never returned by the matching request
\* function reverts with "Invalid request" and changes nothing.
C2_UnknownRequestRejected ==
    [][ ( \/ /\ lastCall'.fn = "performVerification"
             /\ ~IssuedFor("performVerification", lastCall'.id)
          \/ /\ lastCall'.fn = "decryptVerification"
             /\ ~IssuedFor("decryptVerification", lastCall'.id) )
        => /\ lastCall'.result = "Invalid request"
           /\ UNCHANGED callbackState ]_vars

C2_Witness ==
    /\ lastCall.fn = "performVerification"
    /\ lastCall.result = "Invalid request"
    /\ ~IssuedFor("performVerification", lastCall.id)
    /\ \E r \in RequestIds :
          IssuedFor("performVerification", r) /\ TargetOf(r) # 0

\* C3: every Verification carries the refugeeId that was passed to the
\* verifyEligibility call which returned the requestId of its callback.
C3_VerificationMatchesRequest ==
    \A v \in Verifications :
        /\ IssuedFor("performVerification", createdBy[v])
        /\ encryptedVerifications[v].refugeeId = TargetOf(createdBy[v])

\* two requests for two registered records, answered in the reverse order
C3_Witness ==
    /\ verificationCount = 2
    /\ createdBy[1] > createdBy[2]
    /\ encryptedVerifications[1].refugeeId # encryptedVerifications[2].refugeeId
    /\ \A v \in Verifications :
          encryptedVerifications[v].refugeeId \in 1..refugeeCount

\* C4: once isRevealed is true for a verification id, its DecryptedResult
\* (isRevealed, eligibility, priority) never changes again.
C4_RevealedResultFrozen ==
    [][ \A v \in VerificationIds :
          decryptedResults[v].isRevealed
            => decryptedResults'[v] = decryptedResults[v] ]_vars

\* C5: isRevealed of a verification id becomes true at most once, and only in
\* a decryptVerification callback whose requestId requestVerificationResult
\* returned for that id.
C5_RevealedOnceForIssuedRequest ==
    [][ \A v \in VerificationIds :
          (~decryptedResults[v].isRevealed /\ decryptedResults'[v].isRevealed)
            => /\ resultDecrypted[v] = 0
               /\ resultDecrypted'[v] = 1
               /\ lastCall'.fn = "decryptVerification"
               /\ IssuedFor("decryptVerification", lastCall'.id)
               /\ TargetOf(lastCall'.id) = v ]_vars

\* C6: a decryptVerification callback that succeeds stores its cleartexts and
\* sets isRevealed; one that arrives for a verification already revealed
\* reverts and changes nothing, whatever its cleartexts.
C6_SecondRevealHasNoEffect ==
    [][ /\ ( /\ lastCall'.fn = "decryptVerification"
             /\ IssuedFor("decryptVerification", lastCall'.id)
             /\ decryptedResults[TargetOf(lastCall'.id)].isRevealed )
          => /\ lastCall'.result = "Already decrypted"
             /\ UNCHANGED callbackState
        /\ ( /\ lastCall'.fn = "decryptVerification"
             /\ lastCall'.result = "ok" )
          => decryptedResults'[TargetOf(lastCall'.id)] =
               [eligibility |-> lastCall'.e, priority |-> lastCall'.p,
                isRevealed |-> TRUE] ]_vars

\* two reveal requests for one existing verification; the one issued first is
\* delivered second, with other cleartexts than the stored ones
C6_Witness ==
    /\ lastCall.fn = "decryptVerification"
    /\ lastCall.result = "Already decrypted"
    /\ \E r2 \in RequestIds :
          /\ r2 > lastCall.id
          /\ IssuedFor("decryptVerification", r2)
          /\ TargetOf(r2) = TargetOf(lastCall.id)
    /\ TargetOf(lastCall.id) \in Verifications
    /\ resultDecrypted[TargetOf(lastCall.id)] = 1
    /\ lastCall.e # decryptedResults[TargetOf(lastCall.id)].eligibility

\* C7: requestVerificationResult on a verification whose isRevealed is true
\* reverts with "Already decrypted": no decryption request is submitted and
\* nothing is registered.
C7_RevealRequestRejectedOnceRevealed ==
    [][ ( /\ lastCall'.fn = "requestVerificationResult"
          /\ decryptedResults[lastCall'.id].isRevealed )
        => /\ lastCall'.result = "Already decrypted"
           /\ UNCHANGED <<store, issued, createdBy, resultDecrypted>> ]_vars

C7_Witness ==
    /\ lastCall.fn = "requestVerificationResult"
    /\ lastCall.result = "Already decrypted"
    /\ lastCall.id \in Verifications
    /\ decryptedResults[lastCall.id].isRevealed
    /\ Len(issued) < MaxRequests

\* C8: while a verification is not revealed, what getDecryptedResult returns
\* for it is the same in two runs that differ only in the cleartexts decoded
\* by performVerification.
C8_UnrevealedResultHidden ==
    \A v \in VerificationIds :
        ~decryptedResults[v].isRevealed
          => getDecryptedResult(v) = ResultView(twinResults, v)

\* C9: verifyEligibility for a record id that is not registered, or a package
\* id that was not created, fails: nothing is submitted or registered.
C9_VerifyEligibilityNotFound ==
    [][ ( /\ lastCall'.fn = "verifyEligibility"
          /\ \/ lastCall'.id \notin 1..refugeeCount
             \/ lastCall'.e \notin 1..packageCount )
        => /\ lastCall'.result # "ok"
           /\ UNCHANGED <<issued, requestToRefugeeId>> ]_vars

\* C10: every Verification refers to a registered record.
C10_NoDanglingRefugee ==
    \A v \in Verifications :
        encryptedVerifications[v].refugeeId \in 1..refugeeCount

\* C11: a mutating operation sent by a caller the access policy denies fails
\* with Unauthorized and changes no stored state.
C11_DeniedCallerRejected ==
    [][~isAuthorized(caller') =>
          /\ lastCall'.result = "Unauthorized"
          /\ UNCHANGED <<store, issued>>]_vars

\* the status of the record stored under aid_<recordId>
StoredStatus(recordId) == parseJSON(getRecordData(recordId)).status

\* the step in which the write of a status handler takes effect
WriteSucceeds(k, fn) ==
    /\ pc[k] = "status_setData"
    /\ local[k].fn = fn
    /\ pc'[k] = "load_getContract"

\* C12: approveRecord(id) succeeds only when the stored status of the record
\* is exactly Pending; on Approved, Distributed or Rejected it fails with
\* IllegalTransition and leaves the stored record unchanged.
C12_ApproveOnlyPending ==
    [][\A k \in Tasks :
          WriteSucceeds(k, "approveRecord")
              => StoredStatus(local[k].recordId) = "pending"]_vars

\* C13: distributeRecord(id) succeeds only when the stored status of the
\* record is exactly Approved; on Pending, Distributed or Rejected it fails
\* with IllegalTransition and leaves the stored record unchanged.
C13_DistributeOnlyApproved ==
    [][\A k \in Tasks :
          WriteSucceeds(k, "distributeRecord")
              => StoredStatus(local[k].recordId) = "approved"]_vars

\* the status transitions the record lifecycle allows
AllowedTransitions ==
    { <<"pending", "approved">>, <<"approved", "distributed">>,
      <<"pending", "rejected">> }

\* C14: the stored status of a record changes only along Pending -> Approved,
\* Approved -> Distributed and Pending -> Rejected; a Distributed record never
\* becomes Approved again and a Rejected record never changes.
C14_StatusOnlyAlongLifecycle ==
    [][\A recordId \in DOMAIN aidData :
          LET old == parseJSON(aidData[recordId]).status
              new == parseJSON(aidData'[recordId]).status
          IN  old # new => <<old, new>> \in AllowedTransitions]_vars

\* the index stored under aid_keys
StoredKeys == readKeys(getKeysData)

\* no submitRecord stands between its first await and its last write
NoSubmitRunning == Submitting = {}

\* C15: after submitRecord calls run one after another with every write
\* succeeding, the record ids produced are pairwise distinct and the aid_keys
\* index is as long as the number of stored records.
C15_SequentialIdsDistinctAndIndexed ==
    NoSubmitRunning =>
        /\ \A i, j \in 1..Len(StoredKeys) :
              i # j => StoredKeys[i] # StoredKeys[j]
        /\ Len(StoredKeys) = Cardinality(DOMAIN aidData)

\* the index before a step is an initial segment of the index after it
IndexOnlyAppended ==
    LET old == StoredKeys
        new == readKeys(aidKeys')
    IN  /\ Len(old) <= Len(new)
        /\ \A i \in 1..Len(old) : new[i] = old[i]

\* every stored record is listed in the index and every listed id is stored
IndexMatchesRecords ==
    {StoredKeys[i] : i \in 1..Len(StoredKeys)} = DOMAIN aidData

\* C16: with two or more sessions running submitRecord concurrently the
\* aid_keys index is append-only (an id once in the index stays at the same
\* position in every later state) and, once all submitters have finished,
\* lists exactly the ids of the stored records.
C16_ConcurrentIndexAppendOnly ==
    [][/\ IndexOnlyAppended
       /\ NoSubmitRunning' => IndexMatchesRecords']_vars

\* the ids listed in the index stored under aid_keys
IndexedIds == {StoredKeys[i] : i \in 1..Len(StoredKeys)}

\* C17: record creation is one logical operation: in every reachable state,
\* also when submitRecord is interrupted or its second write fails after the
\* record was written, a record is stored under aid_<id> exactly when <id> is
\* listed in aid_keys.
C17_RecordStoredIffIndexed ==
    \A recordId \in DOMAIN aidData \cup IndexedIds :
        Len(getRecordData(recordId)) > 0 <=> recordId \in IndexedIds

\* 1 when the condition holds, 0 otherwise
Indicator(condition) == IF condition THEN 1 ELSE 0

Min(a, b) == IF a < b THEN a ELSE b

\* C18: the eligibility performVerification stores is
\* min(100, 50*[len(identity) > 10] + 50*[len(needs) > 5]): 100 for an
\* identity of 11 bytes and needs of 6, 50 for an identity of 5 and needs of
\* 6, and a length of exactly 10 (identity) or exactly 5 (needs) adds nothing.
C18_EligibilityFormula ==
    \A v \in Verifications :
        LET identity == decoded[1]
            needs == decoded[2]
            stored == decryptedResults[v].eligibility
        IN  /\ stored = Min(100, 50 * Indicator(Len(identity) > 10)
                                 + 50 * Indicator(Len(needs) > 5))
            /\ Len(identity) = 11 /\ Len(needs) = 6 => stored = 100
            /\ Len(identity) = 5 /\ Len(needs) = 6 => stored = 50
            /\ Len(identity) = 10 /\ Len(needs) = 5 => stored = 0

C18_Witness ==
    /\ verificationCount >= 1
    /\ Len(decoded[1]) = 10
    /\ Len(decoded[2]) = 6
    /\ decryptedResults[1].eligibility = 50

\* the positions below both lengths at which needs and resources agree
MatchingPositions(needs, resources) ==
    {i \in 1..Min(Len(needs), Len(resources)) : needs[i] = resources[i]}

Max(a, b) == IF a > b THEN a ELSE b

\* C19: the priority performVerification stores is
\* floor(100 * m / max(1, len(needs))), m the number of positions
\* i < min(len(needs), len(resources)) with needs[i] = resources[i]: 80 for
\* "abcde" against "abxde", 100 for identical non-empty strings, 0 for empty
\* needs.
C19_PriorityFormula ==
    \A v \in Verifications :
        LET needs == decoded[2]
            resources == decoded[3]
            m == Cardinality(MatchingPositions(needs, resources))
            stored == decryptedResults[v].priority
        IN  /\ stored = (100 * m) \div Max(1, Len(needs))
            /\ needs = <<1, 2, 3, 4, 5>> /\ resources = <<1, 2, 9, 4, 5>>
                  => stored = 80
            /\ needs = resources /\ Len(needs) > 0 => stored = 100
            /\ Len(needs) = 0 => stored = 0

C19_Witness ==
    /\ verificationCount >= 1
    /\ decoded[2] = <<1, 2, 3, 4, 5>>
    /\ decoded[3] = <<1, 2, 9, 4, 5>>
    /\ decryptedResults[1].priority = 80

\* the step is a delivery to performVerification with a proof that fails the
\* signature check
PerformWithBadProof ==
    /\ lastCall'.fn = "performVerification"
    /\ \E cleartexts \in SampleCleartexts, t \in SampleTimestamps :
          performVerification(lastCall'.id, cleartexts, FALSE, t)

\* the step is a delivery to decryptVerification with a proof that fails the
\* signature check
DecryptWithBadProof ==
    /\ lastCall'.fn = "decryptVerification"
    /\ \E cleartexts \in SampleScores, t \in SampleTimestamps :
          decryptVerification(lastCall'.id, cleartexts, FALSE, t)

\* C20: a performVerification or decryptVerification callback whose proof
\* fails the signature check is rejected and mutates nothing: no Verification
\* is created, verificationCount is unchanged, no DecryptedResult changes.
C20_BadProofRejected ==
    [][PerformWithBadProof \/ DecryptWithBadProof =>
          /\ lastCall'.result # "ok"
          /\ UNCHANGED callbackState]_vars

C20_Witness ==
    /\ lastCall.fn = "decryptVerification"
    /\ lastCall.result = "InvalidKMSSignatures"
    /\ verificationCount >= 1
    /\ \E r \in RequestIds :
          /\ r < Len(issued)
          /\ ~UnknownRefugeeRequest(r)

\* C21: registering a decryption request whose requestId is already present
\* in a correlation table fails with DuplicateRequestId and does not overwrite
\* the target registered for it: verifyEligibility and
\* requestVerificationResult never replace an existing entry.
C21_ExistingEntryNotReplaced ==
    [][\A r \in RequestIds :
          /\ requestToRefugeeId[r] # 0
                => requestToRefugeeId'[r] = requestToRefugeeId[r]
          /\ verificationRequestToId[r] # 0
                => verificationRequestToId'[r] = verificationRequestToId[r]]_vars

\* the DecryptedResult performVerification computes from some cleartexts
ComputedResults ==
    {NewResult(calculateEligibility(c[1], c[2]), calculatePriority(c[2], c[3])) :
        c \in SampleCleartexts}

\* C22: a successful performVerification creates exactly one Verification,
\* under an id that is fresh (no earlier Verification has it and no
\* DecryptedResult was written under it), stores its DecryptedResult with
\* isRevealed = false and the computed scores, and leaves every Verification
\* and DecryptedResult stored before unchanged; ids follow the order in which
\* the callbacks complete.
C22_PerformVerificationCreatesFresh ==
    [][ ( /\ lastCall'.fn = "performVerification"
          /\ lastCall'.result = "ok" )
        => LET v == verificationCount'
           IN  /\ v = verificationCount + 1
               /\ Len(createdBy') = v
               /\ createdBy'[v] = lastCall'.id
               /\ encryptedVerifications[v] = NoVerification
               /\ decryptedResults[v] = NoResult
               /\ resultDecrypted[v] = 0
               /\ encryptedVerifications'[v].verificationId = v
               /\ decryptedResults'[v] \in ComputedResults
               /\ \A u \in VerificationIds \ {v} :
                     /\ encryptedVerifications'[u] = encryptedVerifications[u]
                     /\ decryptedResults'[u] = decryptedResults[u] ]_vars

\* C23: verifyEligibility creates no Verification: verificationCount,
\* encryptedVerifications, decryptedResults, every refugee and package record
\* and the reveal correlation table stay as they are, and its only state
\* change is one new entry requestId -> recordId in the eligibility
\* correlation table.
C23_VerifyEligibilityFrame ==
    [][ ( /\ lastCall'.fn = "verifyEligibility"
          /\ lastCall'.result = "ok" )
        => /\ UNCHANGED <<refugeeCount, packageCount, verificationCount,
                          encryptedRefugees, encryptedPackages,
                          encryptedVerifications, decryptedResults,
                          verificationRequestToId>>
           /\ \E r \in RequestIds :
                 /\ requestToRefugeeId[r] = 0
                 /\ requestToRefugeeId' =
                       [requestToRefugeeId EXCEPT ![r] = lastCall'.id] ]_vars

\* a request for a registered record, made when a Verification and a reveal
\* request exist already
C23_Witness ==
    /\ lastCall.fn = "verifyEligibility"
    /\ lastCall.id \in 1..refugeeCount
    /\ verificationCount >= 1
    /\ \E r \in RequestIds : verificationRequestToId[r] # 0
    /\ requestToRefugeeId[Len(issued) - 1] = lastCall.id

\* C24: once a performVerification callback for request id r has failed the
\* proof check the request is lost: a later performVerification call with the
\* same r and a valid proof creates no Verification.  Stated for the call
\* that follows the failed one directly.
C24_FailedRequestIsLost ==
    [][ ( /\ lastCall.fn = "performVerification"
          /\ lastCall.result = "InvalidKMSSignatures"
          /\ lastCall'.fn = "performVerification"
          /\ lastCall'.id = lastCall.id )
        => /\ lastCall'.result # "ok"
           /\ verificationCount' = verificationCount ]_vars

ProtocolCalls ==
    {"verifyEligibility", "performVerification",
     "requestVerificationResult", "decryptVerification"}

\* C25: refugee records and aid packages are immutable once created:
\* registerEncryptedRefugee and createAidPackage write only the id they
\* assign, and verifyEligibility, performVerification,
\* requestVerificationResult and decryptVerification leave every refugee
\* record and package (timestamp included) and every aid record's stored
\* status as they were.
C25_RecordsImmutable ==
    [][ /\ \A i \in 1..refugeeCount :
              encryptedRefugees'[i] = encryptedRefugees[i]
        /\ \A i \in 1..packageCount :
              encryptedPackages'[i] = encryptedPackages[i]
        /\ lastCall'.fn = "registerEncryptedRefugee"
              => /\ \A i \in RefugeeIds \ {refugeeCount'} :
                       encryptedRefugees'[i] = encryptedRefugees[i]
                 /\ encryptedPackages' = encryptedPackages
        /\ lastCall'.fn = "createAidPackage"
              => /\ \A i \in PackageIds \ {packageCount'} :
                       encryptedPackages'[i] = encryptedPackages[i]
                 /\ encryptedRefugees' = encryptedRefugees
        /\ lastCall'.fn \in ProtocolCalls
              => /\ encryptedRefugees' = encryptedRefugees
                 /\ encryptedPackages' = encryptedPackages
                 /\ DOMAIN aidData' = DOMAIN aidData
                 /\ \A k \in DOMAIN aidData :
                       StoredStatus(k)' = StoredStatus(k) ]_vars

\* both refugees and a package are registered, an aid record is pending, and
\* a Verification with eligibility 100 has just been revealed
C25_Witness ==
    /\ refugeeCount = MaxRefugees
    /\ packageCount >= 1
    /\ \E k \in DOMAIN aidData : StoredStatus(k) = "pending"
    /\ lastCall.fn = "decryptVerification"
    /\ lastCall.result = "ok"
    /\ \E v \in Verifications :
          /\ encryptedVerifications[v].refugeeId \in 1..refugeeCount
          /\ decryptedResults[v].isRevealed
          /\ decryptedResults[v].eligibility = 100

\* C26: the two callbacks resolve their request ids in separate tables: with
\* request ids that are never reused, an id returned by verifyEligibility is
\* rejected by decryptVerification and an id returned by
\* requestVerificationResult is rejected by performVerification, and the
\* rejected call changes nothing.
C26_TablesDisjoint ==
    [][ ( \/ /\ lastCall'.fn = "decryptVerification"
             /\ IssuedFor("performVerification", lastCall'.id)
          \/ /\ lastCall'.fn = "performVerification"
             /\ IssuedFor("decryptVerification", lastCall'.id) )
        => /\ lastCall'.result = "Invalid request"
           /\ UNCHANGED callbackState ]_vars

\* the id of an eligibility request for a registered record was delivered to
\* decryptVerification while a reveal request for an existing Verification
\* was waiting
C26_Witness ==
    /\ lastCall.fn = "decryptVerification"
    /\ lastCall.result = "Invalid request"
    /\ IssuedFor("performVerification", lastCall.id)
    /\ TargetOf(lastCall.id) \in 1..refugeeCount
    /\ \E r \in RequestIds :
          /\ IssuedFor("decryptVerification", r)
          /\ TargetOf(r) \in Verifications
          /\ ~decryptedResults[TargetOf(r)].isRevealed

\* C27: every Verification performVerification creates has packageId 0,
\* whatever packageId the verifyEligibility call of its request was given.
C27_PackageNotCarried ==
    \A v \in Verifications : encryptedVerifications[v].packageId = 0

\* a Verification for a registered record whose request named package 1
C27_Witness ==
    /\ packageCount = 1
    /\ lastCall.fn = "performVerification"
    /\ lastCall.result = "ok"
    /\ IssuedFor("performVerification", lastCall.id)
    /\ encryptedVerifications[verificationCount].refugeeId \in 1..refugeeCount
    /\ encryptedVerifications[verificationCount].verificationId = verificationCount

\* the ids in use are 1..counter, every stored entity carries its key as its
\* id, and nothing is stored under 0 or above the counter
CountersDescribeStores ==
    /\ \A i \in RefugeeIds :
          IF i \in 1..refugeeCount
          THEN encryptedRefugees[i].refugeeId = i
          ELSE encryptedRefugees[i] = NoRefugee
    /\ \A i \in PackageIds :
          IF i \in 1..packageCount
          THEN encryptedPackages[i].packageId = i
          ELSE encryptedPackages[i] = NoPackage
    /\ \A i \in VerificationIds :
          IF i \in 1..verificationCount
          THEN encryptedVerifications[i].verificationId = i
          ELSE encryptedVerifications[i] = NoVerification

\* C28: the counters describe the stores exactly: the refugee, package and
\* verification ids are 1..refugeeCount, 1..packageCount and
\* 1..verificationCount, each entity's id field equals its key, id 0 is never
\* assigned, the counters never decrease, and an id once assigned keeps its
\* entity.
C28_CountersDescribeStores ==
    /\ CountersDescribeStores
    /\ [][ /\ CountersDescribeStores'
           /\ refugeeCount' >= refugeeCount
           /\ packageCount' >= packageCount
           /\ verificationCount' >= verificationCount
           /\ \A i \in 1..refugeeCount :
                 encryptedRefugees'[i] = encryptedRefugees[i]
           /\ \A i \in 1..packageCount :
                 encryptedPackages'[i] = encryptedPackages[i]
           /\ \A i \in 1..verificationCount :
                 encryptedVerifications'[i] = encryptedVerifications[i] ]_vars

\* every store is full
C28_Witness ==
    /\ refugeeCount = MaxRefugees
    /\ packageCount = MaxPackages
    /\ verificationCount = MaxVerifications
    /\ encryptedVerifications[1].refugeeId # encryptedVerifications[2].refugeeId

\* C29: every verification id whose DecryptedResult is revealed is the id of
\* an existing Verification: no reveal request and no reveal callback is
\* accepted for an id performVerification has not created yet.
C29_RevealedOnlyForExisting ==
    \A v \in VerificationIds :
        decryptedResults[v].isRevealed => v \in 1..verificationCount

\* C30: when the oracle keeps delivering a valid-proof performVerification
\* callback for every request that is waiting, every verifyEligibility call
\* that succeeded for a record id is followed, sooner or later, by a state in
\* which a Verification with that refugeeId exists.
C30_AcceptedRequestCompletes ==
    \A requestId \in RequestIds, recordId \in RefugeeIds :
        ( /\ IssuedFor("performVerification", requestId)
          /\ TargetOf(requestId) = recordId )
        ~> (\E v \in Verifications :
               encryptedVerifications[v].refugeeId = recordId)

\* C31: when the decryptVerification callback for an existing Verification v
\* carries the decryption of v's encryptedEligibility and encryptedPriority,
\* the eligibility and priority stored after the reveal are the ones
\* performVerification stored when it created v: the reveal changes
\* isRevealed of v and nothing else.
C31_HonestRevealRoundTrip ==
    [][ ( /\ lastCall'.fn = "decryptVerification"
          /\ lastCall'.result = "ok"
          /\ verificationRequestToId[lastCall'.id] \in Verifications
          /\ LET verification ==
                     encryptedVerifications[verificationRequestToId[lastCall'.id]]
             IN  /\ lastCall'.e = decrypt(verification.encryptedEligibility)
                 /\ lastCall'.p = decrypt(verification.encryptedPriority) )
        => LET v == verificationRequestToId[lastCall'.id]
           IN  /\ decryptedResults[v] \in ComputedResults
               /\ decryptedResults' =
                     [decryptedResults EXCEPT ![v].isRevealed = TRUE]
               /\ UNCHANGED <<verificationCount, encryptedVerifications,
                              requestToRefugeeId, verificationRequestToId>> ]_vars

\* a Verification with two different scores has just been revealed
C31_Witness ==
    /\ lastCall.fn = "decryptVerification"
    /\ lastCall.result = "ok"
    /\ LET v == verificationRequestToId[lastCall.id]
       IN  /\ v \in Verifications
           /\ decryptedResults[v].isRevealed
           /\ decryptedResults[v].eligibility # decryptedResults[v].priority
           /\ decryptedResults[v].eligibility =
                 decrypt(encryptedVerifications[v].encryptedEligibility)
           /\ decryptedResults[v].priority =
                 decrypt(encryptedVerifications[v].encryptedPriority)

\* C32: for the input strings within the bounds the scores performVerification
\* stores stay in range: eligibility is 0, 50 or 100, priority is an integer
\* from 0 to 100, and priority is 100 only when every position of needs holds
\* the byte resources holds at the same position.
C32_ScoresInRange ==
    \A v \in Verifications :
        LET needs == decoded[2]
            resources == decoded[3]
        IN  /\ decryptedResults[v].eligibility \in {0, 50, 100}
            /\ decryptedResults[v].priority \in 0..100
            /\ decryptedResults[v].priority = 100
                  => \A i \in 1..Len(needs) :
                        /\ i <= Len(resources)
                        /\ needs[i] = resources[i]
            /\ decrypt(encryptedVerifications[v].encryptedEligibility) \in {0, 50, 100}
            /\ decrypt(encryptedVerifications[v].encryptedPriority) \in 0..100

\* priority 100 for needs that are a proper prefix of resources, next to an
\* eligibility of 50
C32_Witness ==
    /\ verificationCount >= 1
    /\ Len(decoded[2]) > 0
    /\ Len(decoded[3]) > Len(decoded[2])
    /\ decryptedResults[1].priority = 100
    /\ decryptedResults[1].eligibility = 50

\* the stored status of every record is pending, approved or distributed
StatusesImplemented ==
    \A k \in DOMAIN aidData :
        StoredStatus(k) \in {"pending", "approved", "distributed"}

\* C33: from the empty store, submitRecord, approveRecord and distributeRecord
\* keep the stored status of every record among pending, approved and
\* distributed: a record is created with status pending and nothing writes
\* the status rejected.
C33_NoRejectedStatus ==
    /\ StatusesImplemented
    /\ [][ /\ StatusesImplemented'
           /\ \A k \in (DOMAIN aidData') \ DOMAIN aidData :
                 StoredStatus(k)' = "pending" ]_vars

\* a record was submitted, approved and distributed, and the session that
\* did it lists it as distributed
C33_Witness ==
    \E c \in Clients : \E k \in DOMAIN aidData :
        /\ StoredStatus(k) = "distributed"
        /\ Shows(c, k, "distributed")

====
